---- MODULE Spec2Model ----
(***************************************************************************)
(* Route compiler, RAI matcher and two-layer request middleware of         *)
(* @weconjs/core (Routes.groupRoutesByRai, RaiMatcher, Wecon).             *)
(*                                                                         *)
(* A path is a sequence of tokens: "/" , a literal token, or a parameter   *)
(* token ":name".  String concatenation is \o, so composition of prefixes  *)
(* keeps double slashes and missing slashes exactly as the code does.      *)
(* A JS Map is a sequence of [key, val] entries in insertion order.        *)
(***************************************************************************)
EXTENDS Integers, Sequences, FiniteSets, TLC

VARIABLES
    _routes,        \* Wecon._routes: the root Routes, or Undefined
    _roles,         \* Wecon._roles
    _guestRole,     \* Wecon._guestRole
    _built,         \* Wecon._built
    compiled,       \* groupRoutesByRai: its raiMap, and whether logError ended the process
    _raisMap,       \* Wecon._raisMap
    exactRoutes,    \* RaiMatcher.exactRoutes
    routesByMethod, \* RaiMatcher.routesByMethod
    cache,          \* RaiMatcher.cache
    _masterRouter,  \* the route layers of Wecon._masterRouter, in registration order
    resp,           \* the outcome of the last request the middleware handled
    _paramCallbacks,    \* the callbacks router.param registered, by parameter name
    _dev,               \* Wecon._dev
    _postman,           \* Wecon._postman
    _onRoutesPrepared,  \* Wecon._onRoutesPrepared
    thrown,             \* the last builder call that threw, and its message
    constructed,        \* the last Route or Routes constructor call and its result
    modules,            \* the module map handed to resolveModuleDependencies
    resolution,         \* what resolveModuleDependencies returned or threw
    ctx,                \* dtCtx.ctx: the resolved configuration of the DevTools context
    res,                \* the response of the last PUT /config request
    retry,              \* options.retry of createDatabaseConnection
    connected,          \* createDatabaseConnection: connected
    mongooseInstance,   \* createDatabaseConnection: mongooseInstance
    connectCall,        \* the connect() call in flight or last finished
    disconnectCall      \* the disconnect() call in flight or last finished

vars == <<_routes, _roles, _guestRole, _built, compiled, _raisMap,
          exactRoutes, routesByMethod, cache, _masterRouter, resp,
          _paramCallbacks, _dev, _postman, _onRoutesPrepared, thrown, constructed,
          modules, resolution, ctx, res, retry, connected, mongooseInstance,
          connectCall, disconnectCall>>

\* the state of the module loader, of the DevTools and of the database connection
loaderVars == <<modules, resolution>>

devtoolsVars == <<ctx, res>>

databaseVars == <<retry, connected, mongooseInstance, connectCall, disconnectCall>>

\* the state of the Wecon instance, its matcher and its router
weconVars == <<_routes, _roles, _guestRole, _built, compiled, _raisMap,
               exactRoutes, routesByMethod, cache, _masterRouter, resp,
               _paramCallbacks, _dev, _postman, _onRoutesPrepared, thrown, constructed>>

\* the variables a request, a rejected builder call and a constructor call leave alone
builderVars == <<_dev, _postman, _onRoutesPrepared>>

(***************************************************************************)
(* Bounds of the model.                                                    *)
(***************************************************************************)
\* number of distinct numeric request paths /1, /2, ... the cache run issues
MaxPathId == 1002

(***************************************************************************)
(* JS Map as an insertion-ordered sequence of entries.                     *)
(***************************************************************************)
MapHas(m, k) == \E i \in 1..Len(m) : m[i].key = k

MapIdx(m, k) == CHOOSE i \in 1..Len(m) : m[i].key = k

MapGet(m, k) == m[MapIdx(m, k)].val

\* Map.prototype.set: a present key keeps its position and gets the new value
MapSet(m, k, v) ==
    IF MapHas(m, k)
    THEN [m EXCEPT ![MapIdx(m, k)] = [key |-> k, val |-> v]]
    ELSE Append(m, [key |-> k, val |-> v])

MapDelete(m, k) == SelectSeq(m, LAMBDA e : e.key # k)

MapValues(m) == [i \in 1..Len(m) |-> m[i].val]

MapKeys(m) == [i \in 1..Len(m) |-> m[i].key]

(***************************************************************************)
(* Paths.                                                                  *)
(***************************************************************************)
Slash == "/"

ParamTokens == {":x", ":y"}

WildcardTokens == {"*"}

IsParamToken(t) == t \in ParamTokens

\* String.prototype.length of a path: ":x" is two characters
RECURSIVE StrLen(_)
StrLen(p) ==
    IF p = <<>> THEN 0
    ELSE (IF IsParamToken(Head(p)) THEN 2 ELSE 1) + StrLen(Tail(p))

EndsWithSlash(p) == Len(p) > 0 /\ p[Len(p)] = Slash

SliceLast(p) == SubSeq(p, 1, Len(p) - 1)

\* path.split("/").filter(Boolean): the non-empty runs between slashes
RECURSIVE SplitSegments(_, _)
SplitSegments(p, cur) ==
    IF p = <<>> THEN (IF cur = <<>> THEN <<>> ELSE <<cur>>)
    ELSE IF Head(p) = Slash
         THEN (IF cur = <<>> THEN <<>> ELSE <<cur>>) \o SplitSegments(Tail(p), <<>>)
         ELSE SplitSegments(Tail(p), Append(cur, Head(p)))

Segments(p) == SplitSegments(p, <<>>)

\* segment.startsWith(":")
StartsWithColon(seg) == IsParamToken(seg[1])

\* route.path.includes(":") || route.path.includes("*")
HasParamOrWildcard(p) ==
    \E i \in 1..Len(p) : p[i] \in ParamTokens \cup WildcardTokens

\* path-to-regexp match(template)(path): literals match themselves, a
\* parameter matches one or more non-slash tokens, one trailing slash is optional
RECURSIVE TemplateMatches(_, _)
TemplateMatches(t, p) ==
    IF t = <<>> THEN p = <<>> \/ p = <<Slash>>
    ELSE IF IsParamToken(Head(t))
         THEN \E k \in 1..Len(p) :
                 /\ \A j \in 1..k : p[j] # Slash
                 /\ TemplateMatches(Tail(t), SubSeq(p, k + 1, Len(p)))
         ELSE /\ p # <<>>
              /\ Head(p) = Head(t)
              /\ TemplateMatches(Tail(t), Tail(p))

\* Array.prototype.sort with a consistent comparator is stable: element i
\* lands after every element that compares before it or ties with it from the left
\* cmp[j, i] is the comparator's result on the elements at indices j and i
StableSortBy(s, cmp) ==
    LET n == Len(s)
        pos(i) == 1 + Cardinality({j \in 1..n :
                        \/ cmp[j, i] < 0
                        \/ (cmp[j, i] = 0 /\ j < i)})
    IN  [q \in 1..n |-> s[CHOOSE i \in 1..n : pos(i) = q]]

(***************************************************************************)
(* Route and Routes declarations.                                          *)
(***************************************************************************)
Undefined == [kind |-> "undefined"]

Route(id, method, path, rai, roles) ==
    [kind |-> "Route", id |-> id, method |-> method, path |-> path,
     rai |-> rai, roles |-> roles, middlewares |-> <<id>>]

Routes(prefix, routes, params, middlewares, mergeParams) ==
    [kind |-> "Routes", prefix |-> prefix, routes |-> routes, params |-> params,
     middlewares |-> middlewares, mergeParams |-> mergeParams]

\* new RoutesParam(path, middleware, validate): uuid stands for the object identity
RoutesParam(uuid, path, validate) ==
    [uuid |-> uuid, path |-> path, validate |-> validate]

\* the validate object of a RoutesParam: absent, or some of pattern,
\* minLength, maxLength and validatorFn
NoLength == -1

NoValidate ==
    [present |-> FALSE, pattern |-> "none", minLength |-> NoLength,
     maxLength |-> NoLength, validatorFn |-> "none"]

Validate(pattern, minLength, maxLength, validatorFn) ==
    [present |-> TRUE, pattern |-> pattern, minLength |-> minLength,
     maxLength |-> maxLength, validatorFn |-> validatorFn]

\* validate.pattern.test(value), for the patterns the rules use
PatternTest(pattern, value) ==
    CASE pattern = "^a$" -> value = <<"a">>
      [] pattern = "^b$" -> value = <<"b">>
      [] OTHER -> FALSE

\* validate.validatorFn(value), for the functions the rules use
ValidatorFn(validatorFn, value) ==
    CASE validatorFn = "isA" -> value = <<"a">>
      [] validatorFn = "isB" -> value = <<"b">>
      [] OTHER -> FALSE

\* validateValue that passes as soon as one of the present checks passes
ValidateValueAny(validate, value) ==
    \/ ~validate.present
    \/ (validate.pattern # "none" /\ PatternTest(validate.pattern, value))
    \/ (validate.minLength # NoLength /\ StrLen(value) >= validate.minLength)
    \/ (validate.maxLength # NoLength /\ StrLen(value) <= validate.maxLength)
    \/ (validate.validatorFn # "none" /\ ValidatorFn(validate.validatorFn, value))

\* RoutesParam.validateValue
validateValue(validate, value) ==
    IF ~validate.present THEN TRUE
    ELSE IF validate.pattern # "none" /\ ~PatternTest(validate.pattern, value) THEN FALSE
    ELSE IF validate.minLength # NoLength /\ StrLen(value) < validate.minLength THEN FALSE
    ELSE IF validate.maxLength # NoLength /\ StrLen(value) > validate.maxLength THEN FALSE
    ELSE IF validate.validatorFn # "none" /\ ~ValidatorFn(validate.validatorFn, value)
    THEN FALSE
    ELSE TRUE

(***************************************************************************)
(* Routes.groupRoutesByRai: the pre-order flattening of the tree.          *)
(***************************************************************************)
\* ErrorCatcher.logError: prints the error, then process.exit(1)
LogErrorReturns(acc, title) ==
    [acc EXCEPT !.errors = Append(@, title)]

LogError(acc, title) ==
    [acc EXCEPT !.errors = Append(@, title), !.exited = TRUE]

\* Routes.deduplicateParams: unique.set(p.path, p) for each, then the values
RECURSIVE DedupInto(_, _)
DedupInto(unique, params) ==
    IF params = <<>> THEN unique
    ELSE DedupInto(MapSet(unique, Head(params).path, Head(params)), Tail(params))

deduplicateParams(params) == MapValues(DedupInto(<<>>, params))

\* fullPath = accumulatedPath + current.path, with the slashes normalized
NormalizedConcat(accumulatedPath, path) ==
    IF EndsWithSlash(accumulatedPath) /\ Len(path) > 0 /\ path[1] = Slash
    THEN accumulatedPath \o Tail(path)
    ELSE accumulatedPath \o path

\* fullPath = accumulatedPath + current.path
FullPath(accumulatedPath, path) == accumulatedPath \o path

\* Object.assign(Object.create(proto), current, {path, params, middlewares})
ExtendedRoute(current, fullPath, finalParams, finalMiddlewares) ==
    [kind |-> "Route", id |-> current.id, method |-> current.method,
     path |-> fullPath, rai |-> current.rai, roles |-> current.roles,
     params |-> finalParams, middlewares |-> finalMiddlewares]

\* the endpoint branch of traverse without the duplicate check
TraverseRouteUnchecked(acc, current, accumulatedPath, accumulatedParams, accumulatedMiddlewares) ==
    [acc EXCEPT !.raiMap =
        MapSet(@, current.rai,
               ExtendedRoute(current, FullPath(accumulatedPath, current.path),
                             deduplicateParams(accumulatedParams),
                             accumulatedMiddlewares \o current.middlewares))]

\* the endpoint branch of traverse
TraverseRoute(acc, current, accumulatedPath, accumulatedParams, accumulatedMiddlewares) ==
    LET fullPath == FullPath(accumulatedPath, current.path)
        finalMiddlewares == accumulatedMiddlewares \o current.middlewares
        finalParams == deduplicateParams(accumulatedParams)
        reported == IF MapHas(acc.raiMap, current.rai)
                    THEN LogError(acc, "Duplicate 'rai' detected")
                    ELSE acc
    IN  IF reported.exited THEN reported
        ELSE [reported EXCEPT !.raiMap =
                 MapSet(@, current.rai,
                        ExtendedRoute(current, fullPath, finalParams, finalMiddlewares))]

\* nextParams decided by the group's own mergeParams, not its parent's
NextParamsOwnFlag(current, accumulatedParams, parentsMergeParams) ==
    IF current.mergeParams THEN accumulatedParams \o current.params
    ELSE current.params

\* nextParams of the group branch of traverse
NextParams(current, accumulatedParams, parentsMergeParams) ==
    IF parentsMergeParams THEN accumulatedParams \o current.params
    ELSE current.params

RECURSIVE traverse(_, _, _, _, _, _)
RECURSIVE TraverseChildren(_, _, _, _, _, _)

\* current.routes.forEach(child => traverse(child, ...)); nothing runs once
\* the process has exited
TraverseChildren(acc, children, nextPath, nextParams, nextMiddlewares, mergeParams) ==
    IF children = <<>> \/ acc.exited THEN acc
    ELSE TraverseChildren(
            traverse(acc, Head(children), nextPath, nextParams, nextMiddlewares, mergeParams),
            Tail(children), nextPath, nextParams, nextMiddlewares, mergeParams)

traverse(acc, current, accumulatedPath, accumulatedParams, accumulatedMiddlewares, parentsMergeParams) ==
    IF current.kind = "Route"
    THEN TraverseRoute(acc, current, accumulatedPath, accumulatedParams,
                       accumulatedMiddlewares)
    ELSE TraverseChildren(acc, current.routes,
                          accumulatedPath \o current.prefix,
                          NextParams(current, accumulatedParams, parentsMergeParams),
                          accumulatedMiddlewares \o current.middlewares,
                          current.mergeParams)

NotCompiled == [raiMap |-> <<>>, errors |-> <<>>, exited |-> FALSE]

groupRoutesByRai(root) == traverse(NotCompiled, root, <<>>, <<>>, <<>>, FALSE)

(***************************************************************************)
(* RaiMatcher.                                                             *)
(***************************************************************************)
\* method.trim().toUpperCase()
NormalizeMethod(method) ==
    CASE method \in {"get", " GET", "Get"} -> "GET"
      [] method \in {"post", " POST", "Post"} -> "POST"
      [] OTHER -> method

\* a key that leaves the method out
KeyPathOnly(method, path) == <<"", path>>

\* the template literal `${normalizedMethod}:${path}`
Key(method, path) == <<method, path>>

\* a score that gives every segment the weight of a parameter
SegmentScoreFlat(seg) == 10

\* getRouteSpecificity, in tenths: static 10, ":" 1, "*" 0.5, plus
\* (segments.length - i) * 0.1 for the segment at index i
SegmentScore(seg) ==
    IF StartsWithColon(seg) THEN 10
    ELSE IF seg = <<"*">> THEN 5
    ELSE 100

RECURSIVE SumScores(_, _, _)
SumScores(segments, i, score) ==
    IF i > Len(segments) THEN score
    ELSE SumScores(segments, i + 1,
                   score + SegmentScore(segments[i]) + (Len(segments) - (i - 1)))

getRouteSpecificity(path) == SumScores(Segments(path), 1, 0)

\* the trailing-slash variant registered next to an exact route
WithSlash(path) ==
    IF EndsWithSlash(path) THEN SliceLast(path) ELSE Append(path, Slash)

\* the exact-route part of one iteration of initialize
AddExact(exact, route) ==
    IF ~HasParamOrWildcard(route.path)
    THEN LET m == NormalizeMethod(route.method)
         IN  MapSet(MapSet(exact, Key(m, route.path), route.rai),
                    Key(m, WithSlash(route.path)), route.rai)
    ELSE exact

CachedRoute(route) ==
    [rai |-> route.rai, method |-> NormalizeMethod(route.method), path |-> route.path]

\* routesByMethod.get(normalizedMethod).push(cachedRoute)
PushByMethod(byMethod, route) ==
    LET m == NormalizeMethod(route.method)
    IN  IF MapHas(byMethod, m)
        THEN MapSet(byMethod, m, Append(MapGet(byMethod, m), CachedRoute(route)))
        ELSE MapSet(byMethod, m, <<CachedRoute(route)>>)

\* the comparator of routes.sort in initialize: descending specificity
BySpecificity(a, b) == getRouteSpecificity(b.path) - getRouteSpecificity(a.path)

\* a sort that puts the later of two equal-score routes first
SortBySpecificityUnstable(routes) ==
    StableSortBy(routes,
        [i \in 1..Len(routes), j \in 1..Len(routes) |->
            IF BySpecificity(routes[i], routes[j]) # 0
            THEN BySpecificity(routes[i], routes[j])
            ELSE j - i])

SortBySpecificity(routes) ==
    StableSortBy(routes,
        [i \in 1..Len(routes), j \in 1..Len(routes) |->
            BySpecificity(routes[i], routes[j])])

RECURSIVE InitExact(_, _)
InitExact(exact, raisList) ==
    IF raisList = <<>> THEN exact
    ELSE InitExact(AddExact(exact, Head(raisList)), Tail(raisList))

RECURSIVE InitByMethod(_, _)
InitByMethod(byMethod, raisList) ==
    IF raisList = <<>> THEN byMethod
    ELSE InitByMethod(PushByMethod(byMethod, Head(raisList)), Tail(raisList))

\* RaiMatcher.initialize: the two maps after the loop and the per-method sort
initialize(raisList) ==
    LET byMethod == InitByMethod(<<>>, raisList)
    IN  [exactRoutes |-> InitExact(<<>>, raisList),
         routesByMethod |->
             [i \in 1..Len(byMethod) |->
                 [key |-> byMethod[i].key, val |-> SortBySpecificity(byMethod[i].val)]]]

\* a primary path that keeps the trailing slash of the request
normalizeRouteAsGiven(route) == [primary |-> route, alternate |-> WithSlash(route)]

normalizeRoute(route) ==
    LET primary == IF EndsWithSlash(route) /\ Len(route) > 1
                   THEN SliceLast(route) ELSE route
        alternate == IF primary = route
                     THEN (IF route = <<Slash>> THEN route ELSE Append(route, Slash))
                     ELSE route
    IN  [primary |-> primary, alternate |-> alternate]

\* the size above which findRai evicts the oldest cache entry
CacheCapacity == 1000

\* the first route of the specificity-sorted list whose matcher accepts the
\* primary or the alternate path; 0 when none does
FirstMatch(methodRoutes, primary, alternate) ==
    LET hits == {i \in 1..Len(methodRoutes) :
                    \/ TemplateMatches(methodRoutes[i].path, primary)
                    \/ TemplateMatches(methodRoutes[i].path, alternate)}
    IN  IF hits = {} THEN 0 ELSE CHOOSE i \in hits : \A j \in hits : i <= j

\* this.cache.set(cacheKey, route), with no eviction
MemoizeUnbounded(c, cacheKey, route) == MapSet(c, cacheKey, route)

\* this.cache.set(cacheKey, route), evicting the most recent earlier entry
\* instead of the oldest one
MemoizeEvictNewest(c, cacheKey, route) ==
    LET set == MapSet(c, cacheKey, route)
    IN  IF Len(set) > CacheCapacity
        THEN MapDelete(set, set[Len(set) - 1].key)
        ELSE set

\* this.cache.set(cacheKey, route); if (this.cache.size > 1000) delete the first key
Memoize(c, cacheKey, route) ==
    LET set == MapSet(c, cacheKey, route)
    IN  IF Len(set) > CacheCapacity
        THEN MapDelete(set, set[1].key)
        ELSE set

\* the meta of the RequestError findRai throws: code, route, method and,
\* when listed, availableRoutes
NoError == [code |-> "", message |-> "", route |-> <<>>, method |-> "", listed |-> FALSE]

\* the meta with the normalized path and method in place of the requested ones
RaiNotFoundNormalized(path, method, listed) ==
    [code |-> "RAI_NOT_FOUND", message |-> "No RAI found for the request URL",
     route |-> normalizeRoute(path).primary, method |-> NormalizeMethod(method),
     listed |-> listed]

RaiNotFound(path, method, listed) ==
    [code |-> "RAI_NOT_FOUND", message |-> "No RAI found for the request URL",
     route |-> path, method |-> method, listed |-> listed]

\* findRai that consults the pattern list before the exact index
FindRaiPatternFirst(exact, byMethod, c, path, method) ==
    LET normalizedMethod == NormalizeMethod(method)
        n == normalizeRoute(path)
        key == Key(normalizedMethod, n.primary)
        methodRoutes == IF MapHas(byMethod, normalizedMethod)
                        THEN MapGet(byMethod, normalizedMethod) ELSE <<>>
        hit == FirstMatch(methodRoutes, n.primary, n.alternate)
    IN  IF hit # 0
        THEN [found |-> TRUE, rai |-> methodRoutes[hit].rai, via |-> "pattern",
              cache |-> Memoize(c, key, methodRoutes[hit]), availableRoutes |-> <<>>,
              error |-> NoError]
        ELSE IF MapHas(exact, key)
        THEN [found |-> TRUE, rai |-> MapGet(exact, key), via |-> "exact",
              cache |-> c, availableRoutes |-> <<>>, error |-> NoError]
        ELSE [found |-> FALSE, rai |-> "", via |-> "none", cache |-> c,
              availableRoutes |-> <<>>, error |-> RaiNotFound(path, method, FALSE)]

\* findRai that memoizes the answers of the exact index too
FindRaiMemoizeExact(exact, byMethod, c, path, method) ==
    LET normalizedMethod == NormalizeMethod(method)
        n == normalizeRoute(path)
        key == Key(normalizedMethod, n.primary)
        methodRoutes == IF MapHas(byMethod, normalizedMethod)
                        THEN MapGet(byMethod, normalizedMethod) ELSE <<>>
        hit == FirstMatch(methodRoutes, n.primary, n.alternate)
    IN  IF MapHas(exact, key)
        THEN [found |-> TRUE, rai |-> MapGet(exact, key), via |-> "exact",
              cache |-> Memoize(c, key, [rai |-> MapGet(exact, key),
                                         method |-> normalizedMethod,
                                         path |-> n.primary]),
              availableRoutes |-> <<>>, error |-> NoError]
        ELSE IF MapHas(c, key)
        THEN [found |-> TRUE, rai |-> MapGet(c, key).rai, via |-> "cache",
              cache |-> c, availableRoutes |-> <<>>, error |-> NoError]
        ELSE IF hit # 0
        THEN [found |-> TRUE, rai |-> methodRoutes[hit].rai, via |-> "pattern",
              cache |-> Memoize(c, key, methodRoutes[hit]), availableRoutes |-> <<>>,
              error |-> NoError]
        ELSE [found |-> FALSE, rai |-> "", via |-> "none", cache |-> c,
              availableRoutes |-> [i \in 1..Len(methodRoutes) |-> methodRoutes[i].path],
              error |-> RaiNotFound(path, method, MapHas(byMethod, normalizedMethod))]

\* RaiMatcher.findRai: the RAI or the RAI_NOT_FOUND error, and the cache afterwards
FindRai(exact, byMethod, c, path, method) ==
    LET normalizedMethod == NormalizeMethod(method)
        n == normalizeRoute(path)
        exactKey == Key(normalizedMethod, n.primary)
        cacheKey == Key(normalizedMethod, n.primary)
    IN  IF MapHas(exact, exactKey)
        THEN [found |-> TRUE, rai |-> MapGet(exact, exactKey), via |-> "exact",
              cache |-> c, availableRoutes |-> <<>>, error |-> NoError]
        ELSE IF MapHas(c, cacheKey)
        THEN [found |-> TRUE, rai |-> MapGet(c, cacheKey).rai, via |-> "cache",
              cache |-> c, availableRoutes |-> <<>>, error |-> NoError]
        ELSE IF ~MapHas(byMethod, normalizedMethod)
        THEN [found |-> FALSE, rai |-> "", via |-> "none", cache |-> c,
              availableRoutes |-> <<>>, error |-> RaiNotFound(path, method, FALSE)]
        ELSE LET methodRoutes == MapGet(byMethod, normalizedMethod)
                 hit == FirstMatch(methodRoutes, n.primary, n.alternate)
             IN  IF hit # 0
                 THEN [found |-> TRUE, rai |-> methodRoutes[hit].rai, via |-> "pattern",
                       cache |-> Memoize(c, cacheKey, methodRoutes[hit]),
                       availableRoutes |-> <<>>, error |-> NoError]
                 ELSE [found |-> FALSE, rai |-> "", via |-> "none", cache |-> c,
                       availableRoutes |->
                           [i \in 1..Len(methodRoutes) |-> methodRoutes[i].path],
                       error |-> RaiNotFound(path, method, TRUE)]

(***************************************************************************)
(* Route.isAuthorized and Wecon.                                           *)
(***************************************************************************)
\* isAuthorized that lets any caller through an endpoint that lists no role
IsAuthorizedOpen(roles, userRoles) ==
    \/ Len(roles) = 0
    \/ \E i \in 1..Len(userRoles) : \E j \in 1..Len(roles) : roles[j] = userRoles[i]

\* Route.isAuthorized
isAuthorized(roles, userRoles) ==
    IF Len(roles) = 0 THEN FALSE
    ELSE \E i \in 1..Len(userRoles) : \E j \in 1..Len(roles) : roles[j] = userRoles[i]

\* Wecon.compareRoutes: static segments before dynamic, a path that runs
\* out of segments after the other, then the longer raw path first
RECURSIVE CompareFrom(_, _, _, _, _)
CompareFrom(a, b, aSegments, bSegments, i) ==
    IF i > Len(aSegments) /\ i > Len(bSegments)
    THEN StrLen(b.path) - StrLen(a.path)
    ELSE IF i > Len(aSegments) THEN 1
    ELSE IF i > Len(bSegments) THEN -1
    ELSE IF StartsWithColon(aSegments[i]) /\ ~StartsWithColon(bSegments[i]) THEN 1
    ELSE IF ~StartsWithColon(aSegments[i]) /\ StartsWithColon(bSegments[i]) THEN -1
    ELSE CompareFrom(a, b, aSegments, bSegments, i + 1)

\* a comparator that looks at the raw path length only
compareRoutesLengthOnly(a, b) == StrLen(b.path) - StrLen(a.path)

compareRoutes(a, b) == CompareFrom(a, b, Segments(a.path), Segments(b.path), 1)

\* Array.from(this._raisMap.values()).sort(this.compareRoutes)
SortedRoutes(raisMap) ==
    LET routes == MapValues(raisMap)
    IN  StableSortBy(routes,
            [i \in 1..Len(routes), j \in 1..Len(routes) |->
                compareRoutes(routes[i], routes[j])])

\* the switch of build: only these four methods are registered on the router
RegisteredMethods == {"GET", "POST", "PUT", "DELETE"}

\* sortedRoutes.forEach: one router layer per route, in sorted order
RegisterRoutes(sortedRoutes) ==
    SelectSeq(sortedRoutes, LAMBDA r : r.method \in RegisteredMethods)

\* this._masterRouter(req, res, next): the first layer whose method and path
\* match handles the request; 0 when the router falls through to next()
MasterRouterLayer(router, path, method) ==
    LET hits == {i \in 1..Len(router) :
                    router[i].method = method /\ TemplateMatches(router[i].path, path)}
    IN  IF hits = {} THEN 0 ELSE CHOOSE i \in hits : \A j \in hits : i <= j

NoUser == [present |-> FALSE, roles |-> <<>>]

User(roles) == [present |-> TRUE, roles |-> roles]

\* user?.roles || [this._guestRole]
UserRoles(user, guestRole) == IF user.present THEN user.roles ELSE <<guestRole>>

\* a guest test that only asks whether the guest role is among the roles
IsGuestIncludesOnly(userRoles, guestRole) ==
    \E i \in 1..Len(userRoles) : userRoles[i] = guestRole

\* userRoles.includes(this._guestRole) && userRoles.length === 1
IsGuest(userRoles, guestRole) ==
    /\ \E i \in 1..Len(userRoles) : userRoles[i] = guestRole
    /\ Len(userRoles) = 1

\* route.params.forEach: router.param(param.path, param.middleware) and, for
\* a rule with a validate object, router.param(param.path, <validator>)
RECURSIVE RegisterParamsOf(_, _)
RegisterParamsOf(callbacks, params) ==
    IF params = <<>> THEN callbacks
    ELSE LET param == Head(params)
             sofar == IF MapHas(callbacks, param.path)
                      THEN MapGet(callbacks, param.path) ELSE <<>>
             middleware == [uuid |-> param.uuid, kind |-> "middleware",
                            validate |-> param.validate]
             validator == [uuid |-> param.uuid, kind |-> "validator",
                           validate |-> param.validate]
         IN  RegisterParamsOf(
                 MapSet(callbacks, param.path,
                        IF param.validate.present
                        THEN sofar \o <<middleware, validator>>
                        ELSE Append(sofar, middleware)),
                 Tail(params))

\* sortedRoutes.forEach: the param callbacks of every route, in sorted order
RECURSIVE RegisterParams(_, _)
RegisterParams(callbacks, sortedRoutes) ==
    IF sortedRoutes = <<>> THEN callbacks
    ELSE RegisterParams(RegisterParamsOf(callbacks, Head(sortedRoutes).params),
                        Tail(sortedRoutes))

\* the name of a parameter token
ParamName(token) ==
    CASE token = ":x" -> "x"
      [] token = ":y" -> "y"

\* the length of the longest slash-free prefix of p
RECURSIVE RunLength(_)
RunLength(p) ==
    IF p = <<>> \/ Head(p) = Slash THEN 0 ELSE 1 + RunLength(Tail(p))

\* req.params of a path the template matches: each parameter's name and value
RECURSIVE ExtractParams(_, _)
ExtractParams(t, p) ==
    IF t = <<>> \/ p = <<>> THEN <<>>
    ELSE IF IsParamToken(Head(t))
         THEN <<[name |-> ParamName(Head(t)), value |-> SubSeq(p, 1, RunLength(p))]>>
                  \o ExtractParams(Tail(t), SubSeq(p, RunLength(p) + 1, Len(p)))
         ELSE ExtractParams(Tail(t), Tail(p))

\* the callbacks of one parameter, in registration order, up to the first
\* validator that calls next(error)
RECURSIVE RunCallbacks(_, _, _)
RunCallbacks(callbacks, value, calls) ==
    IF callbacks = <<>> THEN [calls |-> calls, failed |-> FALSE]
    ELSE LET callback == Head(callbacks)
             call == [uuid |-> callback.uuid, kind |-> callback.kind]
         IN  IF callback.kind = "validator" /\ ~validateValue(callback.validate, value)
             THEN [calls |-> Append(calls, call), failed |-> TRUE]
             ELSE RunCallbacks(Tail(callbacks), value, Append(calls, call))

\* the router's param processing for the matched layer: for each key of the
\* layer, every callback registered on the router under that name
RECURSIVE process_params(_, _, _)
process_params(paramCallbacks, keys, calls) ==
    IF keys = <<>> THEN [calls |-> calls, failed |-> FALSE]
    ELSE IF ~MapHas(paramCallbacks, Head(keys).name)
    THEN process_params(paramCallbacks, Tail(keys), calls)
    ELSE LET ran == RunCallbacks(MapGet(paramCallbacks, Head(keys).name),
                                 Head(keys).value, calls)
         IN  IF ran.failed THEN ran
             ELSE process_params(paramCallbacks, Tail(keys), ran.calls)

\* this._dev: absent, or a WeconDevConfig
NoDev == [present |-> FALSE, helpfulErrors |-> FALSE]

DevConfig(helpfulErrors) == [present |-> TRUE, helpfulErrors |-> helpfulErrors]

\* the states a request passes through when every authorized request is
\* handed over without the Authorized step
RequestPathUnchecked(resolved, authorized, isGuest) ==
    IF ~resolved THEN <<"Unresolved", "NotFound">>
    ELSE IF ~authorized
    THEN <<"Unresolved", "Resolved", IF isGuest THEN "Unauthenticated" ELSE "Forbidden">>
    ELSE <<"Unresolved", "Resolved", "Dispatched">>

\* the states a request passes through in the middleware: findRai, then
\* isAuthorized, then the hand-over to the master router
RequestPath(resolved, authorized, isGuest) ==
    LET unresolved == <<"Unresolved">>
    IN  IF ~resolved THEN Append(unresolved, "NotFound")
        ELSE LET resolvedPath == Append(unresolved, "Resolved")
             IN  IF ~authorized
                 THEN Append(resolvedPath,
                             IF isGuest THEN "Unauthenticated" ELSE "Forbidden")
                 ELSE Append(Append(resolvedPath, "Authorized"), "Dispatched")

NoResponse ==
    [path |-> <<>>, method |-> "", user |-> NoUser, userRoles |-> <<>>,
     outcome |-> "none",
     status |-> 0, rai |-> "", via |-> "none", routeId |-> "", handledBy |-> "",
     handlers |-> <<>>, availableRoutes |-> <<>>,
     error |-> NoError, trace |-> <<>>, matchedLayer |-> "", paramCalls |-> <<>>,
     params |-> <<>>]

\* createHelpfulUnauthorizedError, or the plain message
UnauthorizedMessage(dev, userRoles, guestRole) ==
    IF ~dev.helpfulErrors THEN "Unauthorized"
    ELSE IF Len(userRoles) = 1 /\ userRoles[1] = guestRole
    THEN "Authentication required"
    ELSE "Insufficient permissions"

\* the response the middleware of createMiddleware leaves, from the result
\* of findRai to the end of the master router's handling
Respond(found, raisMap, router, paramCallbacks, guestRole, dev, path, method, user) ==
    LET route == MapGet(raisMap, found.rai)
        userRoles == UserRoles(user, guestRole)
        layer == MasterRouterLayer(router, path, method)
        keys == ExtractParams(router[layer].path, path)
        ran == process_params(paramCallbacks, keys, <<>>)
        base == [NoResponse EXCEPT !.path = path, !.method = method, !.user = user,
                                   !.userRoles = userRoles, !.via = found.via]
    IN  IF ~found.found
        THEN [base EXCEPT !.outcome = "NotFound",
                          !.availableRoutes = found.availableRoutes,
                          !.error = found.error,
                          !.trace = RequestPath(FALSE, FALSE, FALSE)]
        ELSE IF found.rai = ""
        THEN [base EXCEPT !.outcome = "NotFound", !.status = 404,
                          !.error = [NoError EXCEPT !.code = "RAI_NOT_FOUND",
                                        !.message = IF dev.helpfulErrors
                                                    THEN "No route found"
                                                    ELSE "Route not found"],
                          !.trace = RequestPath(FALSE, FALSE, FALSE)]
        ELSE IF ~isAuthorized(route.roles, userRoles)
        THEN [base EXCEPT !.outcome = IF IsGuest(userRoles, guestRole)
                                      THEN "Unauthenticated" ELSE "Forbidden",
                          !.status = IF IsGuest(userRoles, guestRole) THEN 401 ELSE 403,
                          !.rai = found.rai, !.routeId = route.id,
                          !.error = [NoError EXCEPT !.code = "UNAUTHORIZED",
                                        !.message = UnauthorizedMessage(dev, userRoles,
                                                                        guestRole)],
                          !.trace = RequestPath(TRUE, FALSE,
                                                IsGuest(userRoles, guestRole))]
        ELSE IF layer = 0
        THEN [base EXCEPT !.outcome = "Dispatched", !.rai = found.rai,
                          !.routeId = route.id,
                          !.trace = RequestPath(TRUE, TRUE, FALSE)]
        ELSE IF ran.failed
        THEN [base EXCEPT !.outcome = "Dispatched", !.rai = found.rai,
                          !.routeId = route.id,
                          !.matchedLayer = router[layer].id,
                          !.params = keys, !.paramCalls = ran.calls,
                          !.error = [NoError EXCEPT !.code = "INVALID_PARAM",
                                                    !.message = "Invalid Parameter"],
                          !.trace = RequestPath(TRUE, TRUE, FALSE)]
        ELSE [base EXCEPT !.outcome = "Dispatched", !.rai = found.rai,
                          !.routeId = route.id,
                          !.matchedLayer = router[layer].id,
                          !.params = keys, !.paramCalls = ran.calls,
                          !.handledBy = router[layer].id,
                          !.handlers = router[layer].middlewares,
                          !.trace = RequestPath(TRUE, TRUE, FALSE)]

(***************************************************************************)
(* The declarations the application is configured with.                    *)
(***************************************************************************)
\* an endpoint declared directly, or inside one or two nested groups
Leaf(k, id, method, rai, roles) ==
    CASE k = 1 -> Route(id, method, <<"/", "a", "/", ":x">>, rai, roles)
      [] k = 2 -> Route(id, method, <<"/", ":y", "/", "b">>, rai, roles)
      [] k = 3 -> Route(id, method, <<"/", "a", "/", "b", "/">>, rai, roles)
      [] k = 4 -> Routes(<<"/", "a">>,
                         <<Route(id, method, <<"/", ":x">>, rai, roles)>>,
                         <<>>, <<"g4">>, FALSE)
      [] k = 5 -> Routes(<<"/", "a", "/">>,
                         <<Route(id, method, <<"/", "b">>, rai, roles)>>,
                         <<>>, <<>>, FALSE)
      [] k = 6 -> Routes(<<"/">>,
                         <<Routes(<<"a">>,
                                  <<Route(id, method, <<"/", "b">>, rai, roles)>>,
                                  <<>>, <<"g6b">>, FALSE)>>,
                         <<>>, <<"g6a">>, FALSE)

Shapes == 1..6

\* the second endpoint: another RAI or the first one's, GET or POST
SecondLeaf(k, v) ==
    CASE v = 1 -> Leaf(k, "e2", "GET", "r2", <<"guest">>)
      [] v = 2 -> Leaf(k, "e2", "GET", "r1", <<"guest">>)
      [] v = 3 -> Leaf(k, "e2", "POST", "r2", <<>>)

Variants == 1..3

\* an optional third endpoint: a template of parameters only
ThirdLeaves(t) ==
    IF t THEN <<Route("e3", "GET", <<"/", ":y", "/", ":x">>, "r3", <<"admin">>)>>
    ELSE <<>>

Tree(k1, k2, v, t) ==
    Routes(<<>>,
           <<Leaf(k1, "e1", "GET", "r1", <<"admin", "user">>), SecondLeaf(k2, v)>>
               \o ThirdLeaves(t),
           <<>>, <<"root">>, FALSE)

\* the param rules of the catalogue: three rules for x, one for y
ParamRule(uuid) ==
    CASE uuid = "A" -> RoutesParam("A", "x", Validate("^a$", NoLength, NoLength, "none"))
      [] uuid = "B" -> RoutesParam("B", "x", Validate("none", 1, NoLength, "isB"))
      [] uuid = "C" -> RoutesParam("C", "x", Validate("none", NoLength, 1, "none"))
      [] uuid = "Y" -> RoutesParam("Y", "y", NoValidate)

\* a tree with param rules on three nested groups:
\*   root [A]  >  group /a [B, Y]  >  GET /:x (e1),  group "" [C]  >  POST /:x (e2)
\*   root      >  GET /:y/b (e3)
ParamTree(rootMerge, groupMerge) ==
    Routes(<<>>,
           <<Routes(<<"/", "a">>,
                    <<Route("e1", "GET", <<"/", ":x">>, "r1", <<"guest">>),
                      Routes(<<>>,
                             <<Route("e2", "POST", <<"/", ":x">>, "r2", <<"guest">>)>>,
                             <<ParamRule("C")>>, <<>>, FALSE)>>,
                    <<ParamRule("B"), ParamRule("Y")>>, <<>>, groupMerge),
             Route("e3", "GET", <<"/", ":y", "/", "b">>, "r3", <<"guest">>)>>,
           <<ParamRule("A")>>, <<"root">>, rootMerge)

ParamTrees == {ParamTree(rootMerge, groupMerge) : rootMerge, groupMerge \in BOOLEAN}

\* GET /:y/b for admin and user, then GET /a/:x with an empty role list
EmptyRolesTree ==
    Routes(<<>>,
           <<Leaf(2, "e1", "GET", "r1", <<"admin", "user">>),
             Leaf(1, "e2", "GET", "r2", <<>>)>>,
           <<>>, <<"root">>, FALSE)

TreeCatalogue ==
    {Tree(k1, k2, v, t) : k1 \in Shapes, k2 \in Shapes, v \in Variants, t \in BOOLEAN}
        \cup ParamTrees \cup {EmptyRolesTree}

RoleUniverses == {<<"admin", "user", "guest">>}

GuestRoles == {"guest", "anon"}

RequestPaths ==
    {<<"/", "a", "/", "b">>, <<"/", "a", "/", "b", "/">>,
     <<"/", "a", "/", "/", "b">>, <<"/", "a", "/", "a">>}

\* the requests: every path as GET, one of them as POST too
Requests ==
    {<<path, "GET">> : path \in RequestPaths} \cup {<<<<"/", "a", "/", "b">>, "POST">>}

Users ==
    {NoUser, User(<<>>), User(<<"guest">>), User(<<"admin", "guest">>)}

(***************************************************************************)
(* Construction of Route and Routes from configuration objects whose       *)
(* fields are JavaScript values of any type.                               *)
(***************************************************************************)
JsUndefined == [type |-> "undefined", truthy |-> FALSE, value |-> <<>>]

JsNull == [type |-> "null", truthy |-> FALSE, value |-> <<>>]

\* the number 0 and a number other than 0
JsZero == [type |-> "number", truthy |-> FALSE, value |-> <<>>]

JsNumber == [type |-> "number", truthy |-> TRUE, value |-> <<>>]

\* a string, as its sequence of tokens
JsString(tokens) == [type |-> "string", truthy |-> tokens # <<>>, value |-> tokens]

JsBoolean(b) == [type |-> "boolean", truthy |-> b, value |-> <<>>]

JsArray(items) == [type |-> "array", truthy |-> TRUE, value |-> items]

\* typeof v
TypeOf(v) == IF v.type \in {"array", "null"} THEN "object" ELSE v.type

\* Array.isArray(v)
IsArray(v) == v.type = "array"

\* the fields the Route constructor assigns
RouteFields(r) ==
    [method |-> r.method, path |-> r.path, middlewares |-> r.middlewares,
     rai |-> r.rai, roles |-> r.roles]

\* Route.validateRoute: the message of the ConfigError thrown, or ""
validateRoute(this) ==
    IF ~this.method.truthy THEN "ROUTE_CONFIG:MISSING_METHOD"
    ELSE IF ~this.path.truthy THEN "ROUTE_CONFIG:MISSING_PATH"
    ELSE IF ~this.rai.truthy THEN "ROUTE_CONFIG:MISSING_RAI"
    ELSE IF TypeOf(this.rai) # "string" THEN "ROUTE_CONFIG:INVALID_RAI_TYPE"
    ELSE IF ~this.roles.truthy THEN "ROUTE_CONFIG:MISSING_ROLES"
    ELSE IF ~IsArray(this.middlewares) THEN "ROUTE_CONFIG:INVALID_MIDDLEWARES_TYPE"
    ELSE IF Len(this.middlewares.value) = 0 THEN "ROUTE_CONFIG:EMPTY_MIDDLEWARES"
    ELSE ""

\* the fields the Routes constructor assigns: falsy values of prefix,
\* params, middlewares and mergeParams are replaced by the defaults
RoutesFields(r) ==
    [prefix |-> IF r.prefix.truthy THEN r.prefix ELSE JsString(<<>>),
     routes |-> r.routes,
     params |-> IF r.params.truthy THEN r.params ELSE JsArray(<<>>),
     middlewares |-> IF r.middlewares.truthy THEN r.middlewares ELSE JsArray(<<>>),
     mergeParams |-> IF r.mergeParams.truthy THEN r.mergeParams ELSE JsBoolean(FALSE)]

\* Routes.validateRoutes: the message of the error thrown, or ""
validateRoutes(this) ==
    IF this.prefix.truthy /\ TypeOf(this.prefix) # "string"
    THEN "ROUTES_CONFIG:INVALID_PREFIX_TYPE"
    ELSE IF ~this.routes.truthy THEN "ROUTES_CONFIG:MISSING_ROUTES"
    ELSE IF ~IsArray(this.routes) THEN "ROUTES_CONFIG:INVALID_ROUTES_TYPE"
    ELSE IF this.middlewares.truthy /\ ~IsArray(this.middlewares)
    THEN "ROUTES_CONFIG:INVALID_MIDDLEWARES_TYPE"
    ELSE IF this.params.truthy /\ ~IsArray(this.params)
    THEN "ROUTES_CONFIG:INVALID_PARAMS_TYPE"
    ELSE IF this.mergeParams.truthy /\ TypeOf(this.mergeParams) # "boolean"
    THEN "ROUTES_CONFIG:INVALID_MERGE_PARAMS_TYPE"
    ELSE ""

\* a Route object that passed validateRoute, as a declaration
AsRoute(this) ==
    [kind |-> "Route", id |-> this.middlewares.value[1],
     method |-> this.method.value[1], path |-> this.path.value,
     rai |-> this.rai.value[1], roles |-> this.roles.value,
     middlewares |-> this.middlewares.value]

\* a Routes object that passed validateRoutes, as a declaration
AsRoutes(this) ==
    Routes(this.prefix.value, this.routes.value, this.params.value,
           this.middlewares.value, this.mergeParams.truthy)

(***************************************************************************)
(* Module loader: resolveModuleDependencies.                               *)
(***************************************************************************)
\* defineModule({name, imports})
WeconModule(name, imports) == [name |-> name, imports |-> imports]

\* resolved, seen and visiting before the first visit; error is the
\* message of the Error thrown, "" while none is
NoVisit == [resolved |-> <<>>, seen |-> {}, visiting |-> {}, error |-> ""]

\* visit(name) that adds the module before its dependencies
RECURSIVE VisitModuleFirst(_, _, _), VisitImportsModuleFirst(_, _, _, _)
VisitModuleFirst(mods, st, name) ==
    IF st.error # "" \/ name \in st.seen THEN st
    ELSE IF name \in st.visiting
    THEN [st EXCEPT !.error = "Circular module dependency detected"]
    ELSE IF ~MapHas(mods, name)
    THEN [st EXCEPT !.error = "not found"]
    ELSE LET entered == [st EXCEPT !.visiting = @ \cup {name},
                                   !.resolved = Append(@, MapGet(mods, name))]
             after == VisitImportsModuleFirst(mods, entered, MapGet(mods, name).imports, 1)
         IN  IF after.error # "" THEN after
             ELSE [after EXCEPT !.visiting = @ \ {name}, !.seen = @ \cup {name}]

VisitImportsModuleFirst(mods, st, imports, i) ==
    IF i > Len(imports) THEN st
    ELSE VisitImportsModuleFirst(mods, VisitModuleFirst(mods, st, imports[i]), imports, i + 1)

\* visit(name); a throw leaves through every enclosing visit
RECURSIVE visit(_, _, _), VisitImports(_, _, _, _)
visit(mods, st, name) ==
    IF st.error # "" \/ name \in st.seen THEN st
    ELSE IF name \in st.visiting
    THEN [st EXCEPT !.error = "Circular module dependency detected"]
    ELSE IF ~MapHas(mods, name)
    THEN [st EXCEPT !.error = "not found"]
    ELSE LET entered == [st EXCEPT !.visiting = @ \cup {name}]
             after == VisitImports(mods, entered, MapGet(mods, name).imports, 1)
         IN  IF after.error # "" THEN after
             ELSE [after EXCEPT !.visiting = @ \ {name}, !.seen = @ \cup {name},
                                !.resolved = Append(@, MapGet(mods, name))]

\* for (const dep of module.imports ?? []) visit(dep)
VisitImports(mods, st, imports, i) ==
    IF i > Len(imports) THEN st
    ELSE VisitImports(mods, visit(mods, st, imports[i]), imports, i + 1)

\* for (const name of modules.keys()) visit(name)
RECURSIVE VisitKeys(_, _, _)
VisitKeys(mods, st, i) ==
    IF i > Len(mods) THEN st
    ELSE VisitKeys(mods, visit(mods, st, mods[i].key), i + 1)

NotResolved == [status |-> "none", resolved |-> <<>>, error |-> ""]

\* a call that hands back what it resolved so far when a visit throws
ResolveSwallowingErrors(mods) ==
    [status |-> "returned", resolved |-> VisitKeys(mods, NoVisit, 1).resolved,
     error |-> ""]

\* resolveModuleDependencies(modules): the ordered list, or the Error thrown
resolveModuleDependencies(mods) ==
    LET final == VisitKeys(mods, NoVisit, 1)
    IN  IF final.error # ""
        THEN [status |-> "threw", resolved |-> <<>>, error |-> final.error]
        ELSE [status |-> "returned", resolved |-> final.resolved, error |-> ""]

LoaderIdle ==
    /\ modules = <<>>
    /\ resolution = NotResolved

(***************************************************************************)
(* DevTools config controller: PUT /config.                                *)
(*                                                                         *)
(* A dot-path is a sequence of tokens, "." being the separator; a key is   *)
(* the run of tokens between two separators.  An object is the set of its  *)
(* leaves [path, value], path being the sequence of keys that leads to the *)
(* value; "null" and "{}" stand for null and for an object without keys.   *)
(***************************************************************************)
Dot == "."

\* path.split(".")
RECURSIVE SplitDots(_, _)
SplitDots(p, cur) ==
    IF p = <<>> THEN <<cur>>
    ELSE IF Head(p) = Dot THEN <<cur>> \o SplitDots(Tail(p), <<>>)
    ELSE SplitDots(Tail(p), Append(cur, Head(p)))

IsPrefix(q, path) == Len(q) <= Len(path) /\ SubSeq(path, 1, Len(q)) = q

\* a string, null, an empty object and an object with one key, as values
Scalar(v) == {[path |-> <<>>, value |-> v]}

NullValue == Scalar("null")

EmptyObject == Scalar("{}")

ObjectWith(key, v) == {[path |-> <<key>>, value |-> v]}

\* what target[part] is, for the object whose leaves are L and the keys q
\* leading to the property
KindAt(L, q) ==
    IF q = <<>> THEN "object"
    ELSE IF \E l \in L : l.path = q
    THEN LET leaf == CHOOSE l \in L : l.path = q
         IN  IF leaf.value = "null" THEN "null"
             ELSE IF leaf.value = "{}" THEN "object"
             ELSE "string"
    ELSE IF \E l \in L : IsPrefix(q, l.path) THEN "object"
    ELSE "undefined"

\* the string at the keys q, or "undefined"
ValueAt(L, q) ==
    IF KindAt(L, q) = "string" THEN (CHOOSE l \in L : l.path = q).value
    ELSE "undefined"

\* target[lastKey] = value, q being the keys down to lastKey
SetAt(L, q, value) ==
    {l \in L : ~IsPrefix(q, l.path) /\ l.path # SubSeq(q, 1, Len(q) - 1)}
        \cup {[path |-> q \o v.path, value |-> v.value] : v \in value}

\* the loop over parts[0 .. length - 2] and the assignment after it:
\* "invalid" when a part is undefined or not an object, "threw" when a
\* property of null is read or written, "ok" otherwise
RECURSIVE Navigate(_, _, _)
Navigate(L, parts, i) ==
    IF KindAt(L, SubSeq(parts, 1, i - 1)) = "null" THEN "threw"
    ELSE IF i = Len(parts) THEN "ok"
    ELSE IF KindAt(L, SubSeq(parts, 1, i)) \in {"undefined", "string"} THEN "invalid"
    ELSE Navigate(L, parts, i + 1)

\* const immutable = ["app.name", "mode"]
Immutable == {<<"app", Dot, "name">>, <<"mode">>}

\* immutable.includes(path)
IsImmutable(path) == path \in Immutable

NoRes == [status |-> 0, code |-> ""]

\* updateConfig: the configuration and the response after PUT /config with
\* the body {path, value}; a TypeError ends in Express's 500
updateConfig(config, body) ==
    IF ~body.path.truthy \/ TypeOf(body.path) # "string"
    THEN [config |-> config, res |-> [status |-> 400, code |-> "INVALID_INPUT"]]
    ELSE IF IsImmutable(body.path.value)
    THEN [config |-> config, res |-> [status |-> 400, code |-> "IMMUTABLE"]]
    ELSE LET parts == SplitDots(body.path.value, <<>>)
             way == Navigate(config, parts, 1)
         IN  IF way = "invalid"
             THEN [config |-> config, res |-> [status |-> 400, code |-> "INVALID_PATH"]]
             ELSE IF way = "threw"
             THEN [config |-> config, res |-> [status |-> 500, code |-> "TypeError"]]
             ELSE [config |-> SetAt(config, parts, body.value),
                   res |-> [status |-> 200, code |-> ""]]

\* the resolved configuration the context starts with
InitialConfig ==
    {[path |-> <<<<"app">>, <<"name">>>>, value |-> "devtools-test"],
     [path |-> <<<<"mode">>>>, value |-> "development"],
     [path |-> <<<<"logging">>, <<"level">>>>, value |-> "debug"]}

DevtoolsIdle ==
    /\ ctx = [config |-> InitialConfig]
    /\ res = NoRes

(***************************************************************************)
(* Database connection: createDatabaseConnection.                          *)
(***************************************************************************)
\* largest maxAttempts the connection is created with
MaxAttempts == 3

\* const { maxAttempts = 3 } = options.retry ?? {}
DefaultMaxAttempts == 3

\* options.retry.maxAttempts: left out, or a number
NoRetry == [given |-> FALSE, maxAttempts |-> 0]

Retry(maxAttempts) == [given |-> TRUE, maxAttempts |-> maxAttempts]

RetryOptions == {NoRetry} \cup {Retry(n) : n \in 0..MaxAttempts}

\* maxAttempts after destructuring with its default
MaxAttemptsOf(r) == IF r.given THEN r.maxAttempts ELSE DefaultMaxAttempts

\* a connect() call: where it is, the value of attempt, and how often it
\* has called the driver and slept so far
NoConnectCall == [pc |-> "idle", attempt |-> 0, attempts |-> 0, sleeps |-> 0]

\* a disconnect() call: where it is and whether it called the driver
NoDisconnectCall == [pc |-> "idle", calledDriver |-> FALSE]

\* entering the for loop, or coming back to its test after attempt++
LoopTest(call, maxAttempts) ==
    IF call.attempt <= maxAttempts THEN [call EXCEPT !.pc = "connecting"]
    ELSE [call EXCEPT !.pc = "threw"]

\* a catch block that sleeps after every failed attempt
AfterFailureAlwaysSleeps(call, maxAttempts) ==
    [call EXCEPT !.attempts = @ + 1, !.pc = "sleeping", !.sleeps = @ + 1]

\* the catch block: sleep when another attempt follows, else on to the
\* loop test, which ends the loop
AfterFailure(call, maxAttempts) ==
    IF call.attempt < maxAttempts
    THEN [call EXCEPT !.attempts = @ + 1, !.pc = "sleeping", !.sleeps = @ + 1]
    ELSE LoopTest([call EXCEPT !.attempts = @ + 1, !.attempt = @ + 1], maxAttempts)

DatabaseIdle ==
    /\ retry = NoRetry
    /\ connected = FALSE
    /\ mongooseInstance = "null"
    /\ connectCall = NoConnectCall
    /\ disconnectCall = NoDisconnectCall

(***************************************************************************)
(* Actions.                                                                *)
(***************************************************************************)
\* the guards every builder method starts with: the message of the Error
\* the call op throws, or "" when it goes through; argValid says whether
\* the argument has the type the method asks for
BuilderOps ==
    {"routes", "roles", "guestRole", "onRoutesPrepared", "dev", "postman", "build"}

\* the guards with dev() left open after build
CallErrorDevOpen(op, argValid, built, routes, roles) ==
    IF op = "build"
    THEN (IF built THEN "build() can only be called once"
          ELSE IF routes = Undefined THEN "routes() must be called before build()"
          ELSE IF Len(roles) = 0 THEN "roles() missing"
          ELSE "")
    ELSE IF built /\ op # "dev" THEN "Cannot modify Wecon after build() has been called"
    ELSE IF argValid \/ op \in {"dev", "postman"} THEN ""
    ELSE "must receive"

CallError(op, argValid, built, routes, roles) ==
    IF op = "build"
    THEN (IF built THEN "build() can only be called once"
          ELSE IF routes = Undefined THEN "routes() must be called before build()"
          ELSE IF Len(roles) = 0 THEN "roles() missing"
          ELSE "")
    ELSE IF built THEN "Cannot modify Wecon after build() has been called"
    ELSE IF argValid \/ op \in {"dev", "postman"} THEN ""
    ELSE "must receive"

NoThrow == [op |-> "", message |-> ""]

NoCallback == "undefined"

NoPostman == [present |-> FALSE, autoGenerate |-> FALSE]

PostmanConfig(autoGenerate) == [present |-> TRUE, autoGenerate |-> autoGenerate]

NotConstructed ==
    [kind |-> "none", config |-> Undefined, object |-> Undefined, error |-> "",
     exited |-> FALSE]

\* process.exit(1) has not been called
Alive == ~compiled.exited /\ ~constructed.exited

WeconInit ==
    /\ _routes = Undefined
    /\ _roles = <<>>
    /\ _guestRole = "guest"
    /\ _built = FALSE
    /\ compiled = NotCompiled
    /\ _raisMap = <<>>
    /\ exactRoutes = <<>>
    /\ routesByMethod = <<>>
    /\ cache = <<>>
    /\ _masterRouter = <<>>
    /\ resp = NoResponse
    /\ _paramCallbacks = <<>>
    /\ _dev = NoDev
    /\ _postman = NoPostman
    /\ _onRoutesPrepared = NoCallback
    /\ thrown = NoThrow
    /\ constructed = NotConstructed

Init == WeconInit /\ LoaderIdle /\ DevtoolsIdle /\ DatabaseIdle

\* Wecon.routes(routes)
SetRoutes(routes) ==
    /\ UNCHANGED <<loaderVars, devtoolsVars, databaseVars>>
    /\ Alive
    /\ CallError("routes", TRUE, _built, _routes, _roles) = ""
    /\ _routes' = routes
    /\ UNCHANGED <<_roles, _guestRole, _built, compiled, _raisMap, exactRoutes,
                   routesByMethod, cache, _masterRouter, resp, _paramCallbacks,
                   builderVars, thrown, constructed>>

\* Wecon.roles(roles)
SetRoles(roles) ==
    /\ UNCHANGED <<loaderVars, devtoolsVars, databaseVars>>
    /\ Alive
    /\ CallError("roles", TRUE, _built, _routes, _roles) = ""
    /\ _roles' = roles
    /\ UNCHANGED <<_routes, _guestRole, _built, compiled, _raisMap, exactRoutes,
                   routesByMethod, cache, _masterRouter, resp, _paramCallbacks,
                   builderVars, thrown, constructed>>

\* Wecon.guestRole(guestRole)
SetGuestRole(guestRole) ==
    /\ UNCHANGED <<loaderVars, devtoolsVars, databaseVars>>
    /\ Alive
    /\ CallError("guestRole", TRUE, _built, _routes, _roles) = ""
    /\ _guestRole' = guestRole
    /\ UNCHANGED <<_routes, _roles, _built, compiled, _raisMap, exactRoutes,
                   routesByMethod, cache, _masterRouter, resp, _paramCallbacks,
                   builderVars, thrown, constructed>>

\* Wecon.onRoutesPrepared(callback)
SetOnRoutesPrepared(callback) ==
    /\ UNCHANGED <<loaderVars, devtoolsVars, databaseVars>>
    /\ Alive
    /\ CallError("onRoutesPrepared", TRUE, _built, _routes, _roles) = ""
    /\ _onRoutesPrepared' = callback
    /\ UNCHANGED <<_routes, _roles, _guestRole, _built, compiled, _raisMap,
                   exactRoutes, routesByMethod, cache, _masterRouter, resp,
                   _paramCallbacks, _dev, _postman, thrown, constructed>>

\* Wecon.dev(config)
SetDev(config) ==
    /\ UNCHANGED <<loaderVars, devtoolsVars, databaseVars>>
    /\ Alive
    /\ CallError("dev", TRUE, _built, _routes, _roles) = ""
    /\ _dev' = config
    /\ UNCHANGED <<_routes, _roles, _guestRole, _built, compiled, _raisMap,
                   exactRoutes, routesByMethod, cache, _masterRouter, resp,
                   _paramCallbacks, _postman, _onRoutesPrepared, thrown, constructed>>

\* Wecon.postman(config)
SetPostman(config) ==
    /\ UNCHANGED <<loaderVars, devtoolsVars, databaseVars>>
    /\ Alive
    /\ CallError("postman", TRUE, _built, _routes, _roles) = ""
    /\ _postman' = config
    /\ UNCHANGED <<_routes, _roles, _guestRole, _built, compiled, _raisMap,
                   exactRoutes, routesByMethod, cache, _masterRouter, resp,
                   _paramCallbacks, _dev, _onRoutesPrepared, thrown, constructed>>

\* a builder call that throws: nothing but the Error leaves the method
RejectedCall(op, argValid) ==
    /\ UNCHANGED <<loaderVars, devtoolsVars, databaseVars>>
    /\ Alive
    /\ CallError(op, argValid, _built, _routes, _roles) # ""
    /\ thrown' = [op |-> op,
                  message |-> CallError(op, argValid, _built, _routes, _roles)]
    /\ UNCHANGED <<_routes, _roles, _guestRole, _built, compiled, _raisMap,
                   exactRoutes, routesByMethod, cache, _masterRouter, resp,
                   _paramCallbacks, builderVars, constructed>>

\* Wecon.build(): compile, build the matcher, register the sorted routes.
\* A duplicate RAI ends the process inside groupRoutesByRai.
Build ==
    /\ UNCHANGED <<loaderVars, devtoolsVars, databaseVars>>
    /\ Alive
    /\ CallError("build", TRUE, _built, _routes, _roles) = ""
    /\ _built' = TRUE
    /\ LET result == groupRoutesByRai(_routes)
           matcher == initialize(MapValues(result.raiMap))
           sortedRoutes == SortedRoutes(result.raiMap)
       IN  /\ compiled' = result
           /\ IF result.exited
              THEN UNCHANGED <<_raisMap, exactRoutes, routesByMethod, _masterRouter,
                               _paramCallbacks>>
              ELSE /\ _raisMap' = result.raiMap
                   /\ exactRoutes' = matcher.exactRoutes
                   /\ routesByMethod' = matcher.routesByMethod
                   /\ _masterRouter' = RegisterRoutes(sortedRoutes)
                   /\ _paramCallbacks' = RegisterParams(<<>>, sortedRoutes)
    /\ UNCHANGED <<_routes, _roles, _guestRole, cache, resp, builderVars, thrown,
                   constructed>>

Serving == _built /\ ~compiled.exited

\* one request through the middleware returned by handler()
Request(path, method, user) ==
    /\ UNCHANGED <<loaderVars, devtoolsVars, databaseVars>>
    /\ Serving
    /\ LET found == FindRai(exactRoutes, routesByMethod, cache, path, method)
       IN  /\ cache' = found.cache
           /\ resp' = Respond(found, _raisMap, _masterRouter, _paramCallbacks,
                              _guestRole, _dev, path, method, user)
    /\ UNCHANGED <<_routes, _roles, _guestRole, _built, compiled, _raisMap,
                   exactRoutes, routesByMethod, _masterRouter, _paramCallbacks,
                   builderVars, thrown, constructed>>

\* RaiMatcher.clearCache()
ClearCache ==
    /\ UNCHANGED <<loaderVars, devtoolsVars, databaseVars>>
    /\ Serving
    /\ cache' = <<>>
    /\ UNCHANGED <<_routes, _roles, _guestRole, _built, compiled, _raisMap,
                   exactRoutes, routesByMethod, _masterRouter, resp, _paramCallbacks,
                   builderVars, thrown, constructed>>

\* the application as it is served: configured with routes, roles and guest
\* role, built once, then requests
Next ==
    \/ \E routes \in TreeCatalogue : SetRoutes(routes)
    \/ \E roles \in RoleUniverses : SetRoles(roles)
    \/ \E guestRole \in GuestRoles : SetGuestRole(guestRole)
    \/ Build
    \/ \E req \in Requests, user \in Users : Request(req[1], req[2], user)
    \/ ClearCache

Spec == Init /\ [][Next]_vars

(***************************************************************************)
(* The builder run: every builder method called in any order, before and   *)
(* after build(), on two trees and with a few requests.                    *)
(***************************************************************************)
ConfigTrees == {Tree(1, 2, 1, FALSE), ParamTree(TRUE, TRUE)}

DevConfigs == {DevConfig(TRUE)}

PostmanConfigs == {PostmanConfig(FALSE)}

Callbacks == {"callback"}

ConfigRequests ==
    {<<<<"/", "a", "/", "b">>, "GET">>, <<<<"/", "a", "/", "/", "b">>, "GET">>,
     <<<<"/", "a", "/", "b">>, "DELETE">>}

ConfigUsers == {NoUser, User(<<"admin", "guest">>)}

NextConfig ==
    \/ \E routes \in ConfigTrees : SetRoutes(routes)
    \/ \E roles \in RoleUniverses : SetRoles(roles)
    \/ \E guestRole \in GuestRoles : SetGuestRole(guestRole)
    \/ \E callback \in Callbacks : SetOnRoutesPrepared(callback)
    \/ \E config \in DevConfigs : SetDev(config)
    \/ \E config \in PostmanConfigs : SetPostman(config)
    \/ \E op \in BuilderOps, argValid \in BOOLEAN : RejectedCall(op, argValid)
    \/ Build
    \/ \E req \in ConfigRequests, user \in ConfigUsers : Request(req[1], req[2], user)

SpecConfig == Init /\ [][NextConfig]_vars

(***************************************************************************)
(* The construction run: one Route and one Routes around it, constructed   *)
(* from configuration objects with conforming, missing and non-conforming  *)
(* fields, then handed to the builder, built and requested.                *)
(***************************************************************************)
RouteConfigs ==
    [method : {JsUndefined, JsString(<<>>), JsString(<<"GET">>)},
     path : {JsUndefined, JsString(<<"/", "a", "/", ":x">>)},
     rai : {JsUndefined, JsNumber, JsString(<<"r1">>)},
     roles : {JsUndefined, JsArray(<<>>), JsArray(<<"guest">>)},
     middlewares : {JsUndefined, JsNumber, JsArray(<<>>), JsArray(<<"e1">>)}]

\* the Route objects that construction lets through
ConstructibleRoutes ==
    {AsRoute(RouteFields(r)) : r \in {c \in RouteConfigs : validateRoute(RouteFields(c)) = ""}}

RoutesConfigs ==
    [prefix : {JsUndefined, JsNull, JsZero, JsNumber, JsString(<<>>),
               JsString(<<"/", "a">>)},
     routes : {JsUndefined, JsNumber} \cup {JsArray(<<e>>) : e \in ConstructibleRoutes},
     params : {JsUndefined, JsZero, JsNumber, JsArray(<<>>)},
     middlewares : {JsUndefined, JsNull, JsNumber, JsArray(<<"g">>)},
     mergeParams : {JsUndefined, JsZero, JsString(<<"yes">>), JsBoolean(FALSE),
                    JsBoolean(TRUE)}]

ConstructRequests ==
    {<<<<"/", "a", "/", "b">>, "GET">>, <<<<"/", "a", "/", "a", "/", "b">>, "GET">>}

\* new Route(r): a validation error is logged and ends the process
ConstructRoute(r) ==
    /\ UNCHANGED <<loaderVars, devtoolsVars, databaseVars>>
    /\ Alive
    /\ constructed.kind = "none"
    /\ constructed' = [kind |-> "Route", config |-> r, object |-> RouteFields(r),
                       error |-> validateRoute(RouteFields(r)),
                       exited |-> validateRoute(RouteFields(r)) # ""]
    /\ UNCHANGED <<_routes, _roles, _guestRole, _built, compiled, _raisMap,
                   exactRoutes, routesByMethod, cache, _masterRouter, resp,
                   _paramCallbacks, builderVars, thrown>>

\* new Routes(r) around the Route just constructed, when r has an array of
\* routes: a validation error is logged and ends the process
ConstructRoutes(r) ==
    /\ UNCHANGED <<loaderVars, devtoolsVars, databaseVars>>
    /\ Alive
    /\ constructed.kind = "Route"
    /\ IsArray(r.routes) => r.routes.value = <<AsRoute(constructed.object)>>
    /\ constructed' = [kind |-> "Routes", config |-> r, object |-> RoutesFields(r),
                       error |-> validateRoutes(RoutesFields(r)),
                       exited |-> validateRoutes(RoutesFields(r)) # ""]
    /\ UNCHANGED <<_routes, _roles, _guestRole, _built, compiled, _raisMap,
                   exactRoutes, routesByMethod, cache, _masterRouter, resp,
                   _paramCallbacks, builderVars, thrown>>

\* Wecon.routes(routes) with the Routes object just constructed
SetConstructedRoutes ==
    /\ Alive
    /\ constructed.kind = "Routes"
    /\ SetRoutes(AsRoutes(constructed.object))

NextConstruct ==
    \/ \E r \in RouteConfigs : ConstructRoute(r)
    \/ \E r \in RoutesConfigs : ConstructRoutes(r)
    \/ SetConstructedRoutes
    \/ \E roles \in RoleUniverses : SetRoles(roles)
    \/ Build
    \/ \E req \in ConstructRequests : Request(req[1], req[2], NoUser)

SpecConstruct == Init /\ [][NextConstruct]_vars

(***************************************************************************)
(* The cache run: one parameterized endpoint, requests /1, /2, ... in      *)
(* order, repeated requests for the oldest and the newest memoized path,   *)
(* and clearCache once the cache is full.                                  *)
(***************************************************************************)
CacheTree ==
    Routes(<<>>, <<Route("e1", "GET", <<"/", ":x">>, "r1", <<"guest">>)>>,
           <<>>, <<>>, FALSE)

PathOf(n) == <<"/", ToString(n)>>

\* the number n of a memoized path /n
NumOf(path) == CHOOSE n \in 1..MaxPathId : PathOf(n) = path

\* the paths the next request of the cache run may ask for
CacheRunPaths(c) ==
    IF c = <<>> THEN {PathOf(1)}
    ELSE {c[1].key[2], c[Len(c)].key[2]}
         \cup (IF NumOf(c[Len(c)].key[2]) < MaxPathId
               THEN {PathOf(NumOf(c[Len(c)].key[2]) + 1)} ELSE {})

InitCache ==
    LET result == groupRoutesByRai(CacheTree)
        matcher == initialize(MapValues(result.raiMap))
    IN  /\ _routes = CacheTree
        /\ _roles = <<"guest">>
        /\ _guestRole = "guest"
        /\ _built = TRUE
        /\ compiled = result
        /\ _raisMap = result.raiMap
        /\ exactRoutes = matcher.exactRoutes
        /\ routesByMethod = matcher.routesByMethod
        /\ cache = <<>>
        /\ _masterRouter = RegisterRoutes(SortedRoutes(result.raiMap))
        /\ resp = NoResponse
        /\ _paramCallbacks = RegisterParams(<<>>, SortedRoutes(result.raiMap))
        /\ _dev = NoDev
        /\ _postman = NoPostman
        /\ _onRoutesPrepared = NoCallback
        /\ thrown = NoThrow
        /\ constructed = NotConstructed
        /\ LoaderIdle
        /\ DevtoolsIdle
        /\ DatabaseIdle

NextCache ==
    \/ \E path \in CacheRunPaths(cache) : Request(path, "GET", NoUser)
    \/ (Len(cache) = CacheCapacity /\ ClearCache)

SpecCache == InitCache /\ [][NextCache]_vars

(***************************************************************************)
(* The loader run: resolveModuleDependencies on every map of up to three   *)
(* modules a, b, c in this key order, each importing up to MaxImports      *)
(* names, z being a name no map has.                                       *)
(***************************************************************************)
\* most imports a module of the loader run has
MaxImports == 2

ModuleNames == <<"a", "b", "c">>

ImportNames == {"a", "b", "c", "z"}

\* the lists of distinct names of length up to n
DistinctLists(names, n) ==
    {l \in UNION {[1..k -> names] : k \in 0..n} :
        \A i, j \in 1..Len(l) : i # j => l[i] # l[j]}

ImportLists == DistinctLists(ImportNames, MaxImports)

\* the map whose i-th entry is the i-th module name with the i-th import list
ModuleMap(imports) ==
    [i \in 1..Len(imports) |->
        [key |-> ModuleNames[i], val |-> WeconModule(ModuleNames[i], imports[i])]]

ModuleMaps ==
    {ModuleMap(imports) :
        imports \in UNION {[1..n -> ImportLists] : n \in 0..Len(ModuleNames)}}

InitLoader ==
    /\ WeconInit
    /\ DevtoolsIdle
    /\ DatabaseIdle
    /\ modules \in ModuleMaps
    /\ resolution = NotResolved

\* resolveModuleDependencies(modules)
ResolveModuleDependencies ==
    /\ resolution.status = "none"
    /\ resolution' = resolveModuleDependencies(modules)
    /\ UNCHANGED <<weconVars, modules, devtoolsVars, databaseVars>>

NextLoader == ResolveModuleDependencies

SpecLoader == InitLoader /\ [][NextLoader]_vars

(***************************************************************************)
(* The DevTools run: PUT /config requests with conforming and              *)
(* non-conforming bodies, in any order.                                    *)
(***************************************************************************)
DotPaths ==
    {JsUndefined, JsNumber, JsString(<<>>),
     JsString(<<"app", Dot, "name">>), JsString(<<"mode">>),
     JsString(<<"app">>), JsString(<<"app", Dot>>),
     JsString(<<"app", Dot, "name", Dot, "first">>),
     JsString(<<"logging", Dot, "level">>), JsString(<<"logging">>),
     JsString(<<"https", Dot, "port">>)}

BodyValues == {Scalar("hacked"), NullValue, ObjectWith(<<"name">>, "hacked")}

Bodies == [path : DotPaths, value : BodyValues]

\* PUT /config with the body {path, value}
UpdateConfig(body) ==
    /\ ctx' = [ctx EXCEPT !.config = updateConfig(ctx.config, body).config]
    /\ res' = updateConfig(ctx.config, body).res
    /\ UNCHANGED <<weconVars, loaderVars, databaseVars>>

NextDevtools == \E body \in Bodies : UpdateConfig(body)

SpecDevtools == Init /\ [][NextDevtools]_vars

(***************************************************************************)
(* The database run: one connection, connect() and disconnect() calls      *)
(* whose awaits interleave, every driver call succeeding or failing.       *)
(***************************************************************************)
InitDatabase ==
    /\ WeconInit
    /\ LoaderIdle
    /\ DevtoolsIdle
    /\ retry \in RetryOptions
    /\ connected = FALSE
    /\ mongooseInstance = "null"
    /\ connectCall = NoConnectCall
    /\ disconnectCall = NoDisconnectCall

\* connect() is called: it awaits the import of mongoose
Connect ==
    /\ connectCall.pc \in {"idle", "returned", "threw"}
    /\ connectCall' = [pc |-> "importing", attempt |-> 0, attempts |-> 0, sleeps |-> 0]
    /\ UNCHANGED <<weconVars, loaderVars, devtoolsVars, retry, connected,
                   mongooseInstance, disconnectCall>>

\* the import resolves: mongooseInstance is set and the loop starts at attempt 1
Imported ==
    /\ connectCall.pc = "importing"
    /\ mongooseInstance' = "mongoose"
    /\ connectCall' = LoopTest([connectCall EXCEPT !.attempt = 1], MaxAttemptsOf(retry))
    /\ UNCHANGED <<weconVars, loaderVars, devtoolsVars, retry, connected, disconnectCall>>

\* mongoose.connect resolves
AttemptSucceeds ==
    /\ connectCall.pc = "connecting"
    /\ connected' = TRUE
    /\ connectCall' = [connectCall EXCEPT !.attempts = @ + 1, !.pc = "returned"]
    /\ UNCHANGED <<weconVars, loaderVars, devtoolsVars, retry, mongooseInstance,
                   disconnectCall>>

\* mongoose.connect rejects
AttemptFails ==
    /\ connectCall.pc = "connecting"
    /\ connectCall' = AfterFailure(connectCall, MaxAttemptsOf(retry))
    /\ UNCHANGED <<weconVars, loaderVars, devtoolsVars, retry, connected,
                   mongooseInstance, disconnectCall>>

\* sleep(currentDelay) resolves: attempt++ and the loop test
Wake ==
    /\ connectCall.pc = "sleeping"
    /\ connectCall' = LoopTest([connectCall EXCEPT !.attempt = @ + 1], MaxAttemptsOf(retry))
    /\ UNCHANGED <<weconVars, loaderVars, devtoolsVars, retry, connected,
                   mongooseInstance, disconnectCall>>

\* disconnect() is called: it awaits the driver when connected, else returns
Disconnect ==
    /\ disconnectCall.pc # "disconnecting"
    /\ disconnectCall' =
          IF connected /\ mongooseInstance # "null"
          THEN [pc |-> "disconnecting", calledDriver |-> TRUE]
          ELSE [pc |-> "returned", calledDriver |-> FALSE]
    /\ UNCHANGED <<weconVars, loaderVars, devtoolsVars, retry, connected,
                   mongooseInstance, connectCall>>

\* mongoose.disconnect resolves
Disconnected ==
    /\ disconnectCall.pc = "disconnecting"
    /\ connected' = FALSE
    /\ disconnectCall' = [disconnectCall EXCEPT !.pc = "returned"]
    /\ UNCHANGED <<weconVars, loaderVars, devtoolsVars, retry, mongooseInstance,
                   connectCall>>

\* mongoose.disconnect rejects
DisconnectFails ==
    /\ disconnectCall.pc = "disconnecting"
    /\ disconnectCall' = [disconnectCall EXCEPT !.pc = "threw"]
    /\ UNCHANGED <<weconVars, loaderVars, devtoolsVars, retry, connected,
                   mongooseInstance, connectCall>>

NextDatabase ==
    \/ Connect
    \/ Imported
    \/ AttemptSucceeds
    \/ AttemptFails
    \/ Wake
    \/ Disconnect
    \/ Disconnected
    \/ DisconnectFails

SpecDatabase == InitDatabase /\ [][NextDatabase]_vars

(***************************************************************************)
(* The matcher run: a built application of two or three endpoints, asked   *)
(* for a path with and without its trailing slash under several spellings  *)
(* of the method, with clearCache() between requests.                      *)
(***************************************************************************)
\* GET /:y/:x declared before GET /a/:x
ParamsFirstTree ==
    Routes(<<>>,
           <<Route("e1", "GET", <<"/", ":y", "/", ":x">>, "r1", <<"guest">>),
             Leaf(1, "e2", "GET", "r2", <<"guest">>)>>,
           <<>>, <<"root">>, FALSE)

\* three templates of three segments: GET /a/b/:x, then /a/:x/c, then /:y/:x/c
ThreeSegmentTree ==
    Routes(<<>>,
           <<Route("e1", "GET", <<"/", "a", "/", "b", "/", ":x">>, "r1", <<"guest">>),
             Route("e2", "GET", <<"/", "a", "/", ":x", "/", "c">>, "r2", <<"guest">>),
             Route("e3", "GET", <<"/", ":y", "/", ":x", "/", "c">>, "r3", <<"guest">>)>>,
           <<>>, <<"root">>, FALSE)

MatcherShapes == {1, 2, 3, 6}

MatcherTrees ==
    {Tree(k1, k2, v, FALSE) : k1 \in MatcherShapes, k2 \in MatcherShapes, v \in {1, 3}}
        \cup {Tree(2, 1, 1, TRUE), Tree(1, 3, 1, TRUE), ParamsFirstTree, ThreeSegmentTree}

MatcherPaths ==
    {<<"/", "a", "/", "b">>, <<"/", "a", "/", "b", "/">>,
     <<"/", "a", "/", "b", "/", "c">>}

MatcherMethods == {"GET", "get", " GET", "POST", "post"}

MatcherRequests == MatcherPaths \X MatcherMethods

InitMatcher ==
    \E tree \in MatcherTrees :
        LET result == groupRoutesByRai(tree)
            matcher == initialize(MapValues(result.raiMap))
        IN  /\ _routes = tree
            /\ _roles = <<"admin", "user", "guest">>
            /\ _guestRole = "guest"
            /\ _built = TRUE
            /\ compiled = result
            /\ _raisMap = result.raiMap
            /\ exactRoutes = matcher.exactRoutes
            /\ routesByMethod = matcher.routesByMethod
            /\ cache = <<>>
            /\ _masterRouter = RegisterRoutes(SortedRoutes(result.raiMap))
            /\ resp = NoResponse
            /\ _paramCallbacks = RegisterParams(<<>>, SortedRoutes(result.raiMap))
            /\ _dev = NoDev
            /\ _postman = NoPostman
            /\ _onRoutesPrepared = NoCallback
            /\ thrown = NoThrow
            /\ constructed = NotConstructed
            /\ LoaderIdle
            /\ DevtoolsIdle
            /\ DatabaseIdle

NextMatcher ==
    \/ \E req \in MatcherRequests : Request(req[1], req[2], NoUser)
    \/ ClearCache

SpecMatcher == InitMatcher /\ [][NextMatcher]_vars

(***************************************************************************)
(* The declared tree, read by position: the reference the claims compare   *)
(* the compiled table with.                                                *)
(***************************************************************************)
\* the node reached from node by the child indices pos, or Undefined
RECURSIVE NodeAt(_, _)
NodeAt(node, pos) ==
    IF pos = <<>> THEN node
    ELSE IF node.kind # "Routes" \/ Head(pos) > Len(node.routes) THEN Undefined
    ELSE NodeAt(node.routes[Head(pos)], Tail(pos))

\* the prefixes of the groups passed on the way to pos, root first, then the
\* endpoint's own path
RECURSIVE PathAlong(_, _)
PathAlong(node, pos) ==
    IF node.kind = "Route" THEN node.path
    ELSE node.prefix \o PathAlong(node.routes[Head(pos)], Tail(pos))

\* the child-index paths from node down to each endpoint below it
RECURSIVE EndpointPositions(_)
EndpointPositions(node) ==
    IF node.kind = "Route" THEN {<<>>}
    ELSE UNION {{<<i>> \o pos : pos \in EndpointPositions(node.routes[i])} :
                  i \in 1..Len(node.routes)}

\* pos comes before other in the depth-first pre-order
Before(pos, other) ==
    \E i \in 1..Len(pos) :
        /\ i <= Len(other)
        /\ pos[i] < other[i]
        /\ \A j \in 1..(i - 1) : pos[j] = other[j]

\* the endpoints of the tree in pre-order: position, declaration, composed path
Declared(root) ==
    LET ps == EndpointPositions(root)
        order == [k \in 1..Cardinality(ps) |->
                    CHOOSE pos \in ps : Cardinality({o \in ps : Before(o, pos)}) = k - 1]
    IN  [k \in 1..Cardinality(ps) |->
            [pos |-> order[k],
             endpoint |-> NodeAt(root, order[k]),
             path |-> PathAlong(root, order[k])]]

\* two endpoints of the declared list share a RAI
HasDuplicateRai(D) ==
    \E i, j \in 1..Len(D) : i < j /\ D[i].endpoint.rai = D[j].endpoint.rai

Range(s) == {s[i] : i \in 1..Len(s)}

(***************************************************************************)
(* Claims.                                                                 *)
(***************************************************************************)
Handled == resp.outcome # "none"

\* the caller's role set: req.user.roles, or the guest role alone
CallerRoleSet == IF resp.user.present THEN Range(resp.user.roles) ELSE {_guestRole}

\* the roles of the endpoint the request resolved to
ResolvedRoles == Range(MapGet(_raisMap, resp.rai).roles)

\* no two endpoints of the compiled table have the same method and resolved path
DistinctTemplates ==
    \A i, j \in 1..Len(_raisMap) :
        (i # j /\ _raisMap[i].val.method = _raisMap[j].val.method)
            => _raisMap[i].val.path # _raisMap[j].val.path

\* C1: whenever an authorized request is dispatched and a handler chain
\* runs, the chain is the one of the endpoint whose RAI the matcher resolved
\* and whose roles were checked.  Stated for requests the pattern list (or
\* its cache) resolved, on tables whose endpoints have pairwise different
\* method and resolved path, where it already fails.
C1_DispatchedToResolvedEndpoint ==
    (/\ resp.outcome = "Dispatched"
     /\ resp.handledBy # ""
     /\ resp.via \in {"pattern", "cache"}
     /\ DistinctTemplates)
        => resp.handledBy = resp.routeId

\* C2: the master router is invoked for a request exactly when findRai
\* returned a RAI and the caller's role set shares a role with that
\* endpoint's roles; a request that ended NotFound, Unauthenticated or
\* Forbidden never reached it.
C2_DispatchIffResolvedAndOverlap ==
    Handled =>
        /\ (resp.outcome = "Dispatched")
              <=> (resp.via # "none" /\ CallerRoleSet \cap ResolvedRoles # {})
        /\ resp.outcome \in {"NotFound", "Unauthenticated", "Forbidden"}
              => (resp.handledBy = "" /\ resp.handlers = <<>>)
        /\ resp.via = "none" <=> resp.outcome = "NotFound"

\* C2 witness: an authenticated caller sharing a role with the endpoint was
\* handed to the master router, which ran a handler chain.
C2_Witness ==
    /\ resp.outcome = "Dispatched"
    /\ resp.user.present
    /\ resp.handledBy # ""
    /\ CallerRoleSet \cap ResolvedRoles # {}

Table == MapValues(_raisMap)

IsStatic(route) == ~HasParamOrWildcard(route.path)

\* findRai for a path and method in the current state
Resolve(path, method) == FindRai(exactRoutes, routesByMethod, cache, path, method)

\* a parameterized endpoint of the table with A's method whose template matches A's path
ShadowedByPattern(A) ==
    \E j \in 1..Len(Table) :
        /\ ~IsStatic(Table[j])
        /\ Table[j].method = A.method
        /\ TemplateMatches(Table[j].path, A.path)

Unslashed(path) ==
    IF Len(path) > 1 /\ path[Len(path)] = "/" THEN SubSeq(path, 1, Len(path) - 1)
    ELSE path

\* the parameter-free endpoints of A's method that share an exact-index key
\* with a request for A's path: their path, or their path with the trailing
\* slash toggled, is A's path without its trailing slash
StaticRivals(A) ==
    {j \in 1..Len(Table) :
        /\ IsStatic(Table[j])
        /\ Table[j].method = A.method
        /\ \/ Table[j].path = Unslashed(A.path)
           \/ Table[j].path = Unslashed(A.path) \o <<"/">>
           \/ Table[j].path \o <<"/">> = Unslashed(A.path)}

TiedMatches(D, path, method, k) ==
    {h \in 1..Len(D) :
        /\ HasParamOrWildcard(D[h].path)
        /\ NormalizeMethod(D[h].endpoint.method) = method
        /\ TemplateMatches(D[h].path, path)
        /\ getRouteSpecificity(D[h].path) = getRouteSpecificity(D[k].path)}

\* some declared endpoint of the method matches the path, with or without its
\* trailing slash, with a higher score than endpoint k
HigherScoringMatch(D, path, method, k) ==
    \E h \in 1..Len(D) :
        /\ NormalizeMethod(D[h].endpoint.method) = method
        /\ \/ TemplateMatches(D[h].path, Unslashed(path))
           \/ TemplateMatches(D[h].path, Unslashed(path) \o <<"/">>)
        /\ getRouteSpecificity(D[h].path) > getRouteSpecificity(D[k].path)

\* a parameter-free endpoint of the method is registered for the path
ExactMatchFor(D, path, method) ==
    \E h \in 1..Len(D) :
        /\ ~HasParamOrWildcard(D[h].path)
        /\ NormalizeMethod(D[h].endpoint.method) = method
        /\ \/ D[h].path = Unslashed(path)
           \/ D[h].path = Unslashed(path) \o <<"/">>
           \/ D[h].path \o <<"/">> = Unslashed(path)

\* endpoints i < j of the tree's pre-order are parameterized, have equal
\* scores, both match the path, i is the first such, and nothing outranks them
TieCase(D, path, method, i, j) ==
    /\ i < j
    /\ LET tied == TiedMatches(D, path, method, i)
       IN  i \in tied /\ j \in tied /\ \A h \in tied : i <= h
    /\ ~HigherScoringMatch(D, path, method, i)
    /\ ~ExactMatchFor(D, path, method)

\* C5: of two parameterized endpoints of one method with equal specificity
\* scores that both match a path (no exact match, no higher-scoring match),
\* findRai returns the RAI of the one declared earlier in the tree's pre-order.
C5_TieBreakByDeclarationOrder ==
    Serving =>
        LET D == Declared(_routes)
        IN  \A req \in Requests : \A i, j \in 1..Len(D) :
                TieCase(D, req[1], req[2], i, j)
                    => /\ Resolve(req[1], req[2]).found
                       /\ Resolve(req[1], req[2]).rai = D[i].endpoint.rai

\* C5 witness: a request was resolved by the pattern scan to the earlier of
\* two tied endpoints whose templates differ.
C5_Witness ==
    /\ Serving
    /\ resp.via = "pattern"
    /\ LET D == Declared(_routes)
       IN  \E i, j \in 1..Len(D) :
              /\ TieCase(D, resp.path, resp.method, i, j)
              /\ D[i].path # D[j].path
              /\ resp.rai = D[i].endpoint.rai

\* C6: whenever a findRai or clearCache call has returned, the resolution
\* cache holds at most 1000 entries.
C6_CacheBound == Len(cache) <= 1000

\* C6 witness: the cache is full after the first memoized paths were evicted.
C6_Witness ==
    /\ Len(cache) = 1000
    /\ resp.via = "pattern"
    /\ ~MapHas(cache, Key("GET", PathOf(1)))
    /\ ~MapHas(cache, Key("GET", PathOf(2)))

\* C7: a memoization into a full cache evicts exactly the entry inserted
\* earliest and appends the new one; below capacity it only appends; a cache
\* hit leaves the cache as it is, so entries leave in insertion order.
C7_FifoEviction ==
    [][/\ (cache' # cache /\ cache' # <<>>)
            => LET kept == IF Len(cache) = 1000 THEN Tail(cache) ELSE cache
               IN  /\ Len(cache') = Len(kept) + 1
                   /\ SubSeq(cache', 1, Len(kept)) = kept
                   /\ ~MapHas(cache, cache'[Len(cache')].key)
       /\ (resp' # resp /\ resp'.via = "cache") => cache' = cache]_vars

\* C7 witness: after a hit on the oldest entry, the cache is full and its
\* oldest entry is the third path memoized: the first two left in order.
C7_Witness ==
    /\ Len(cache) = 1000
    /\ cache[1].key = Key("GET", PathOf(3))
    /\ resp.via = "cache"
    /\ resp.path = PathOf(3)

\* the first endpoint of the declared list that repeats an earlier RAI
FirstDuplicate(D) ==
    CHOOSE j \in 1..Len(D) :
        /\ \E i \in 1..(j - 1) : D[i].endpoint.rai = D[j].endpoint.rai
        /\ \A h \in 1..(j - 1) : \A i \in 1..(h - 1) :
              D[i].endpoint.rai # D[h].endpoint.rai

\* the first endpoint with the RAI of the first duplicate
FirstOccurrence(D) ==
    CHOOSE i \in 1..Len(D) :
        /\ D[i].endpoint.rai = D[FirstDuplicate(D)].endpoint.rai
        /\ \A h \in 1..(i - 1) : D[h].endpoint.rai # D[i].endpoint.rai

\* C8: compiling a tree in which two endpoints share a RAI reports a
\* duplicate-RAI configuration error and ends the build; a compilation
\* without error yields a table with one entry per endpoint of the tree,
\* keyed by pairwise different RAIs.
C8_DuplicateRaiIsAnError ==
    _built =>
        LET D == Declared(_routes)
        IN  /\ HasDuplicateRai(D)
                  <=> (compiled.exited /\ compiled.errors = <<"Duplicate 'rai' detected">>)
            /\ ~compiled.exited =>
                  /\ compiled.errors = <<>>
                  /\ Len(_raisMap) = Len(D)
                  /\ \A i, j \in 1..Len(_raisMap) :
                        i # j => /\ _raisMap[i].key # _raisMap[j].key
                                 /\ _raisMap[i].val.id # _raisMap[j].val.id
                  /\ \A i \in 1..Len(_raisMap) : _raisMap[i].key = _raisMap[i].val.rai

\* C8 witness: a tree with two endpoints of one RAI was built and reported.
C8_Witness ==
    /\ _built
    /\ HasDuplicateRai(Declared(_routes))
    /\ compiled.exited

\* C9: when two endpoints share a RAI, the table's entry for that RAI is the
\* first-declared endpoint: the duplicate is reported and the path, roles and
\* handlers stored under the RAI stay those of the first.
C9_FirstOccurrenceKept ==
    _built =>
        LET D == Declared(_routes)
            first == D[FirstOccurrence(D)]
            entry == MapGet(compiled.raiMap, first.endpoint.rai)
        IN  HasDuplicateRai(D) =>
                /\ compiled.errors # <<>>
                /\ MapHas(compiled.raiMap, first.endpoint.rai)
                /\ entry.id = first.endpoint.id
                /\ entry.path = first.path
                /\ entry.roles = first.endpoint.roles
                /\ SubSeq(entry.middlewares, Len(entry.middlewares),
                          Len(entry.middlewares)) = first.endpoint.middlewares

\* C9 witness: the duplicate has another path and other roles than the first
\* endpoint of its RAI, and the entry is the first endpoint's.
C9_Witness ==
    /\ _built
    /\ LET D == Declared(_routes)
       IN  /\ HasDuplicateRai(D)
           /\ D[FirstDuplicate(D)].path # D[FirstOccurrence(D)].path
           /\ D[FirstDuplicate(D)].endpoint.roles # D[FirstOccurrence(D)].endpoint.roles
           /\ MapGet(compiled.raiMap, D[FirstOccurrence(D)].endpoint.rai).id
                 = D[FirstOccurrence(D)].endpoint.id

\* C10: every endpoint's resolved path in the compiled table is the plain
\* concatenation of its ancestors' prefixes, root first, and its own path;
\* the table lists the endpoints in depth-first pre-order; and compiling
\* leaves the declared tree, with every endpoint's own path, as it was.
C10_PathComposition ==
    /\ [](Serving =>
            LET D == Declared(_routes)
            IN  /\ Len(Table) = Len(D)
                /\ \A k \in 1..Len(Table) :
                      /\ Table[k].id = D[k].endpoint.id
                      /\ Table[k].path = D[k].path)
    /\ [][_built' # _built => _routes' = _routes]_vars

\* C10 witness: the table holds a path with a double slash, composed from a
\* prefix ending in a slash, and a path composed across two nested groups.
C10_Witness ==
    /\ Serving
    /\ \E k \in 1..Len(Table) : Table[k].path = <<"/", "a", "/", "/", "b">>
    /\ \E k \in 1..Len(Table) :
          /\ Len(Declared(_routes)[k].pos) = 3
          /\ Table[k].path = <<"/", "a", "/", "b">>

\* the position of the group that holds the node at pos
ParentPos(pos) == SubSeq(pos, 1, Len(pos) - 1)

\* the param rules the group at position q exposes to its subtree, read
\* off the declared tree: its own rules, preceded by what its parent exposes
\* when the parent merges
RECURSIVE ExposedAt(_, _)
ExposedAt(root, q) ==
    IF q = <<>> THEN NodeAt(root, q).params
    ELSE IF NodeAt(root, ParentPos(q)).mergeParams
         THEN ExposedAt(root, ParentPos(q)) \o NodeAt(root, q).params
         ELSE NodeAt(root, q).params

\* the last rule of the list rules that is declared for the name
LastRuleFor(rules, name) ==
    rules[CHOOSE i \in 1..Len(rules) :
            /\ rules[i].path = name
            /\ \A j \in (i + 1)..Len(rules) : rules[j].path # name]

C12_OneShotBuilder ==
    /\ [](Serving =>
            \A op \in BuilderOps, argValid \in BOOLEAN :
                CallError(op, argValid, _built, _routes, _roles) # "")
    /\ [][Serving =>
            /\ Serving'
            /\ UNCHANGED <<_routes, _roles, _guestRole, compiled, _raisMap,
                           exactRoutes, routesByMethod, _masterRouter,
                           _paramCallbacks, builderVars>>]_vars
    /\ [][thrown' # thrown =>
            UNCHANGED <<_routes, _roles, _guestRole, _built, compiled, _raisMap,
                        exactRoutes, routesByMethod, cache, _masterRouter, resp,
                        _paramCallbacks, builderVars, constructed>>]_vars

\* C12 witness: after a successful build and a dispatched request, a second
\* build() was refused.
C12_Witness ==
    /\ Serving
    /\ resp.outcome = "Dispatched"
    /\ thrown = [op |-> "build", message |-> "build() can only be called once"]

\* the declared endpoints of the method whose template matches the path,
\* with or without its trailing slash
MatchedBy(D, path, method) ==
    {h \in 1..Len(D) :
        /\ NormalizeMethod(D[h].endpoint.method) = NormalizeMethod(method)
        /\ \/ TemplateMatches(D[h].path, Unslashed(path))
           \/ TemplateMatches(D[h].path, Unslashed(path) \o <<"/">>)}

\* the declared endpoints of the method
DeclaredFor(D, method) ==
    {h \in 1..Len(D) : NormalizeMethod(D[h].endpoint.method) = NormalizeMethod(method)}

\* the list holds exactly the resolved paths of the endpoints hs, each as
\* often as it is declared
ListsPathsOf(list, D, hs) ==
    /\ Len(list) = Cardinality(hs)
    /\ \A h \in hs :
          Cardinality({i \in 1..Len(list) : list[i] = D[h].path})
              = Cardinality({g \in hs : D[g].path = D[h].path})

\* the request failed with RAI_NOT_FOUND carrying its own path and method,
\* returned no RAI and left no cache entry
FailedUncached ==
    /\ resp.outcome = "NotFound"
    /\ resp.error.code = "RAI_NOT_FOUND"
    /\ resp.error.route = resp.path
    /\ resp.error.method = resp.method
    /\ resp.rai = ""
    /\ ~MapHas(cache, Key(NormalizeMethod(resp.method), Unslashed(resp.path)))

\* C13 as stated: a request no endpoint matches fails with RAI_NOT_FOUND
\* carrying the requested path, the method and the list of all resolved
\* paths declared for the method, the empty list when there is none; no RAI
\* is returned and nothing is cached.
C13_UnknownRouteListsDeclaredPaths ==
    (Serving /\ Handled) =>
        LET D == Declared(_routes)
        IN  MatchedBy(D, resp.path, resp.method) = {}
                => /\ FailedUncached
                   /\ resp.error.listed
                   /\ ListsPathsOf(resp.availableRoutes, D, DeclaredFor(D, resp.method))

\* C13 amended: the error carries the list of all resolved paths declared
\* for the method when at least one endpoint is declared for it, and no
\* list at all when none is.
C13_UnknownRouteListsPathsIfAny ==
    (Serving /\ Handled) =>
        LET D == Declared(_routes)
        IN  MatchedBy(D, resp.path, resp.method) = {}
                => /\ FailedUncached
                   /\ resp.error.listed <=> DeclaredFor(D, resp.method) # {}
                   /\ resp.error.listed =>
                         ListsPathsOf(resp.availableRoutes, D, DeclaredFor(D, resp.method))

\* C13 witness: a request with a trailing slash that no endpoint matches
\* failed with the paths of the two endpoints declared for its method.
C13_Witness ==
    /\ Serving
    /\ resp.outcome = "NotFound"
    /\ resp.error.listed
    /\ Len(resp.availableRoutes) = 2
    /\ resp.error.route # Unslashed(resp.path)
    /\ MatchedBy(Declared(_routes), resp.path, resp.method) = {}

\* C14: a request that ended NotFound has status 404 set on the response,
\* and in development mode (helpfulErrors) its error is the enriched one.
C14_NotFoundSets404 ==
    resp.outcome = "NotFound" =>
        /\ resp.status = 404
        /\ _dev.helpfulErrors => resp.error.message = "No route found"

\* C15: no handler chain that ran belongs to an endpoint whose role list is
\* empty.
C15_EmptyRolesNeverDispatched ==
    (Serving /\ resp.handledBy # "") =>
        \A k \in 1..Len(Table) :
            Table[k].id = resp.handledBy => Table[k].roles # <<>>

\* the value is missing
Lacks(v) == v.type \in {"undefined", "null"}

\* an Endpoint configuration that lacks a method, path, RAI, roles or handlers
IncompleteEndpoint(r) ==
    \/ Lacks(r.method)
    \/ Lacks(r.path)
    \/ Lacks(r.rai)
    \/ Lacks(r.roles)
    \/ Lacks(r.middlewares)
    \/ IsArray(r.middlewares) /\ r.middlewares.value = <<>>

\* a Group configuration with a non-string prefix, a non-array routes,
\* middlewares or params value or a non-boolean mergeParams; the optional
\* fields may be left out
InvalidGroup(r) ==
    \/ r.prefix.type \notin {"undefined", "string"}
    \/ ~IsArray(r.routes)
    \/ r.middlewares.type \notin {"undefined", "array"}
    \/ r.params.type \notin {"undefined", "array"}
    \/ r.mergeParams.type \notin {"undefined", "boolean"}

\* C17: constructing an incomplete Endpoint or an invalid Group raises a
\* configuration error at construction and ends the process, so the
\* declaration is part of no tree that is built and serves requests.
C17_InvalidDeclarationsRaise ==
    /\ (constructed.kind = "Route" /\ IncompleteEndpoint(constructed.config))
          => (constructed.error # "" /\ constructed.exited /\ ~Serving)
    /\ (constructed.kind = "Routes" /\ InvalidGroup(constructed.config))
          => (constructed.error # "" /\ constructed.exited /\ ~Serving)

\* a rule's validate object accepts the value: every check that is present passes
RuleAccepts(validate, value) ==
    /\ validate.pattern = "none" \/ PatternTest(validate.pattern, value)
    /\ validate.minLength = NoLength \/ StrLen(value) >= validate.minLength
    /\ validate.maxLength = NoLength \/ StrLen(value) <= validate.maxLength
    /\ validate.validatorFn = "none" \/ ValidatorFn(validate.validatorFn, value)

\* C16: for an authorized request whose router layer is the resolved
\* endpoint, a rule of the endpoint's resolved param set that rejects the
\* request's value fails the request with INVALID_PARAM before any handler
\* runs, and when the endpoint's rules accept the values its handler list runs.
C16_InvalidParamPrecedesHandlers ==
    (Serving /\ resp.outcome = "Dispatched" /\ resp.matchedLayer = resp.routeId) =>
        LET E == MapGet(_raisMap, resp.rai)
            values == ExtractParams(E.path, resp.path)
            applied == {<<i, j>> \in (1..Len(E.params)) \X (1..Len(values)) :
                          /\ E.params[i].validate.present
                          /\ E.params[i].path = values[j].name}
        IN  /\ (\E a \in applied :
                    ~RuleAccepts(E.params[a[1]].validate, values[a[2]].value))
                  => (resp.error.code = "INVALID_PARAM" /\ resp.handlers = <<>>)
            /\ (/\ applied # {}
                /\ \A a \in applied :
                      RuleAccepts(E.params[a[1]].validate, values[a[2]].value))
                  => (resp.error.code = "" /\ resp.handlers = E.middlewares)

\* the claim's comparator: a sorts before b
RegistersBefore(a, b) ==
    LET sa == Segments(a.path)
        sb == Segments(b.path)
        longest == IF Len(sa) > Len(sb) THEN Len(sa) ELSE Len(sb)
        differ == {i \in 1..longest :
                     \/ i > Len(sa)
                     \/ i > Len(sb)
                     \/ StartsWithColon(sa[i]) # StartsWithColon(sb[i])}
        first == CHOOSE i \in differ : \A j \in differ : i <= j
    IN  IF differ = {} THEN StrLen(a.path) > StrLen(b.path)
        ELSE IF first > Len(sa) THEN FALSE
        ELSE IF first > Len(sb) THEN TRUE
        ELSE ~StartsWithColon(sa[first])

\* the index of the endpoint in the compiled table
TableIndex(route) == CHOOSE k \in 1..Len(Table) : Table[k].id = route.id

\* a and b have the same method, both match the path, and where their
\* segment kinds first differ a has the literal
LiteralMeetsParam(a, b, path) ==
    /\ a.method = b.method
    /\ TemplateMatches(a.path, path)
    /\ TemplateMatches(b.path, path)
    /\ \E i \in 1..Len(Segments(a.path)) :
          /\ ~StartsWithColon(Segments(a.path)[i])
          /\ StartsWithColon(Segments(b.path)[i])
          /\ \A j \in 1..(i - 1) :
                StartsWithColon(Segments(a.path)[j]) = StartsWithColon(Segments(b.path)[j])

\* C18: the master router holds the endpoints of the compiled table in the
\* order of the registration comparator, table order deciding between
\* endpoints the comparator does not order; so of two endpoints of one
\* method matching a common path, the one with the literal where their
\* segment kinds first differ is registered first.
C18_RegistrationOrder ==
    Serving =>
        /\ Len(_masterRouter) = Len(Table)
        /\ \A k \in 1..Len(Table) : \E i \in 1..Len(_masterRouter) :
              _masterRouter[i] = Table[k]
        /\ \A i, j \in 1..Len(_masterRouter) :
              i < j =>
                 /\ ~RegistersBefore(_masterRouter[j], _masterRouter[i])
                 /\ ~RegistersBefore(_masterRouter[i], _masterRouter[j])
                       => TableIndex(_masterRouter[i]) < TableIndex(_masterRouter[j])
                 /\ \A path \in RequestPaths :
                       ~LiteralMeetsParam(_masterRouter[j], _masterRouter[i], path)

\* C18 witness: two endpoints matching the requested path, the one with the
\* literal first segment declared second and registered first.
C18_Witness ==
    /\ Serving
    /\ Handled
    /\ \E i, j \in 1..Len(_masterRouter) :
          /\ i < j
          /\ LiteralMeetsParam(_masterRouter[i], _masterRouter[j], resp.path)
          /\ TableIndex(_masterRouter[j]) < TableIndex(_masterRouter[i])

\* the paths through the per-request state machine
AllowedPaths ==
    {<<"Unresolved", "Resolved", "Authorized", "Dispatched">>,
     <<"Unresolved", "NotFound">>,
     <<"Unresolved", "Resolved", "Unauthenticated">>,
     <<"Unresolved", "Resolved", "Forbidden">>}

ClearStep == cache' = <<>> /\ resp' = resp

\* C20: a request leaves the compiled table, the exact index, the
\* per-method lists, the roles and the guest role as they were, and changes
\* the cache only when the pattern scan resolved it, by adding its entry.
C20_RequestFrame ==
    [][(Serving /\ ~ClearStep) =>
          /\ UNCHANGED <<compiled, _raisMap, exactRoutes, routesByMethod, _roles,
                         _guestRole>>
          /\ cache' # cache =>
                /\ resp'.via = "pattern"
                /\ resp'.outcome # "NotFound"
                /\ ~MapHas(cache, Key(NormalizeMethod(resp'.method),
                                      Unslashed(resp'.path)))
                /\ MapGet(cache', Key(NormalizeMethod(resp'.method),
                                      Unslashed(resp'.path))).rai = resp'.rai]_vars

\* C20 witness: the cache holds the entry of a pattern-scan resolution, and
\* the last request, answered by the exact index, left it there.
C20_Witness ==
    /\ Serving
    /\ Len(cache) = 1
    /\ resp.via = "exact"
    /\ resp.outcome = "Dispatched"

\* the names of the modules of a map, and the names a module imports
ModuleKeys(mods) == {mods[i].key : i \in 1..Len(mods)}

ImportsOf(mods, name) ==
    {MapGet(mods, name).imports[i] : i \in 1..Len(MapGet(mods, name).imports)}

\* every import names a module of the map
Closed(mods) == \A name \in ModuleKeys(mods) : ImportsOf(mods, name) \subseteq ModuleKeys(mods)

\* the modules of the map reached from the names in from by k imports or fewer
RECURSIVE ReachedWithin(_, _, _)
ReachedWithin(mods, from, k) ==
    IF k = 0 THEN from
    ELSE ReachedWithin(mods,
                       from \cup UNION {ImportsOf(mods, n) : n \in from \cap ModuleKeys(mods)},
                       k - 1)

\* the names the module imports, directly or transitively
TransitiveImports(mods, name) == ReachedWithin(mods, ImportsOf(mods, name), Len(mods))

Acyclic(mods) == \A name \in ModuleKeys(mods) : name \notin TransitiveImports(mods, name)

\* the positions of the module of that name in the returned list
PositionsOf(list, name) == {i \in 1..Len(list) : list[i].name = name}

\* C21: on a map whose import graph is acyclic and names only modules of
\* the map, the returned list holds each module of the map exactly once and
\* every module after all modules it imports, directly or transitively.
C21_DependencyOrder ==
    (resolution.status # "none" /\ Closed(modules) /\ Acyclic(modules)) =>
        /\ resolution.status = "returned"
        /\ Len(resolution.resolved) = Len(modules)
        /\ \A name \in ModuleKeys(modules) :
              /\ Cardinality(PositionsOf(resolution.resolved, name)) = 1
              /\ \A i \in PositionsOf(resolution.resolved, name) :
                    /\ resolution.resolved[i] = MapGet(modules, name)
                    /\ \A dep \in TransitiveImports(modules, name) :
                          \A j \in PositionsOf(resolution.resolved, dep) : j < i

\* C21 witness: the first module of the map imports the last one, which
\* imports the second, and the list returned is second, last, first.
C21_Witness ==
    /\ resolution.status = "returned"
    /\ Len(modules) = 3
    /\ [i \in 1..3 |-> resolution.resolved[i].name] = <<"b", "c", "a">>
    /\ TransitiveImports(modules, "a") = {"b", "c"}

\* C22: the call throws and returns no list exactly when the import graph
\* has a cycle or an import names a module the map does not have: the
\* circular-dependency error when only a cycle is there, the not-found
\* error when only a missing module is; it returns on an acyclic, closed map.
C22_ThrowsOnCycleOrMissing ==
    resolution.status # "none" =>
        /\ resolution.status = "threw" <=> ~(Closed(modules) /\ Acyclic(modules))
        /\ resolution.status = "threw" =>
              /\ resolution.resolved = <<>>
              /\ resolution.error \in {"Circular module dependency detected", "not found"}
              /\ Closed(modules) => resolution.error = "Circular module dependency detected"
              /\ Acyclic(modules) => resolution.error = "not found"

\* C22 witness: three modules importing one another in a ring, and the
\* circular-dependency error thrown.
C22_Witness ==
    /\ resolution.status = "threw"
    /\ resolution.error = "Circular module dependency detected"
    /\ Len(modules) = 3
    /\ Closed(modules)
    /\ \A name \in ModuleKeys(modules) :
          TransitiveImports(modules, name) = ModuleKeys(modules)

\* C23: whatever PUT /config requests were made, app.name and mode of the
\* resolved configuration have their initial values.
C23_ImmutableConfig ==
    /\ ValueAt(ctx.config, <<<<"app">>, <<"name">>>>)
          = ValueAt(InitialConfig, <<<<"app">>, <<"name">>>>)
    /\ ValueAt(ctx.config, <<<<"mode">>>>) = ValueAt(InitialConfig, <<<<"mode">>>>)

\* C24: a connect() call calls the driver at most maxAttempts times, sleeps
\* only between two attempts, returns at its first successful attempt with
\* connected true, and throws after maxAttempts failed attempts without
\* sleeping after the last; connected becomes true only when an attempt
\* succeeds, is false when disconnect() returns, and disconnect() calls the
\* driver only when connected.
C24_ConnectionRetry ==
    /\ [](/\ connectCall.attempts <= MaxAttemptsOf(retry)
          /\ connectCall.pc \in {"connecting", "sleeping"}
                => connectCall.sleeps = connectCall.attempts
          /\ connectCall.pc = "returned"
                => connectCall.sleeps = connectCall.attempts - 1
          /\ connectCall.pc = "threw"
                => /\ connectCall.attempts = MaxAttemptsOf(retry)
                   /\ connectCall.sleeps
                        = (IF connectCall.attempts = 0 THEN 0
                           ELSE connectCall.attempts - 1))
    /\ [][/\ (connectCall.pc = "connecting" /\ connectCall'.pc = "returned")
                => connected'
          /\ (connectCall.pc = "connecting" /\ connectCall'.attempts = connectCall.attempts + 1
                /\ connectCall'.pc # "returned")
                => connected' = connected
          /\ (connected' /\ ~connected)
                => (connectCall.pc = "connecting" /\ connectCall'.pc = "returned")
          /\ (disconnectCall' # disconnectCall /\ disconnectCall'.pc = "returned")
                => ~connected'
          /\ (disconnectCall' # disconnectCall /\ disconnectCall'.pc = "disconnecting")
                => connected
          /\ (disconnectCall' # disconnectCall /\ disconnectCall.pc # "disconnecting"
                /\ ~connected)
                => ~disconnectCall'.calledDriver]_vars

\* C24 witness: after a connect that succeeded and a disconnect that called
\* the driver, a connect() call failed maxAttempts = 3 times, slept twice
\* and threw.
C24_Witness ==
    /\ connectCall = [pc |-> "threw", attempt |-> 4, attempts |-> 3, sleeps |-> 2]
    /\ disconnectCall = [pc |-> "returned", calledDriver |-> TRUE]
    /\ ~connected


(***************************************************************************)
(* Specificity of templates and the answers of the matcher.                *)
(***************************************************************************)
IsLiteral(seg) == ~StartsWithColon(seg) /\ seg # <<"*">>

Literals(path) ==
    Cardinality({i \in 1..Len(Segments(path)) : IsLiteral(Segments(path)[i])})

Params(path) ==
    Cardinality({i \in 1..Len(Segments(path)) : StartsWithColon(Segments(path)[i])})

Wildcards(path) ==
    Cardinality({i \in 1..Len(Segments(path)) : Segments(path)[i] = <<"*">>})

\* the stated score in tenths: 10 per literal, 1 per parameter, 0.5 per "*",
\* and (N - i) * 0.1 for each index i of the N segments
StatedScore(path) ==
    LET N == Len(Segments(path))
    IN  100 * Literals(path) + 10 * Params(path) + 5 * Wildcards(path)
            + (N * (N + 1)) \div 2

\* every per-method list is ordered by non-increasing stated score
ListsByStatedScore ==
    \A k \in 1..Len(routesByMethod) :
        \A i, j \in 1..Len(routesByMethod[k].val) :
            i < j => StatedScore(routesByMethod[k].val[i].path)
                        >= StatedScore(routesByMethod[k].val[j].path)

\* the template matches the requested path, as asked or with its trailing
\* slash toggled
MatchesRequest(template, path) ==
    \/ TemplateMatches(template, Unslashed(path))
    \/ TemplateMatches(template, Append(Unslashed(path), "/"))

\* endpoint k of the table is a candidate of the pattern scan for the request
\* just answered
Candidate(k) ==
    /\ NormalizeMethod(Table[k].method) = NormalizeMethod(resp.method)
    /\ MatchesRequest(Table[k].path, resp.path)

\* the request just answered has no entry in the exact index
NoExactMatch ==
    ~MapHas(exactRoutes, Key(NormalizeMethod(resp.method), Unslashed(resp.path)))

\* a and b are parameterized candidates with the same number of segments, a
\* with more literal segments than b
MoreLiterals(a, b) ==
    /\ Candidate(a) /\ Candidate(b)
    /\ ~IsStatic(Table[a]) /\ ~IsStatic(Table[b])
    /\ Len(Segments(Table[a].path)) = Len(Segments(Table[b].path))
    /\ Literals(Table[a].path) > Literals(Table[b].path)

\* no other candidate scores higher than a, or as high and is declared first
Unrivalled(a) ==
    \A c \in 1..Len(Table) :
        (c # a /\ Candidate(c))
            => \/ StatedScore(Table[c].path) < StatedScore(Table[a].path)
               \/ (StatedScore(Table[c].path) = StatedScore(Table[a].path) /\ a < c)

\* C25 as stated: of two parameterized templates of one method with equally
\* many segments that both match a path with no exact match, findRai returns
\* the RAI of the one with more literal segments, whatever the declaration
\* order; and every per-method list is ordered by non-increasing score
C25_MoreLiteralsWins ==
    Serving =>
        /\ ListsByStatedScore
        /\ (Handled /\ NoExactMatch) =>
              \A a, b \in 1..Len(Table) :
                  MoreLiterals(a, b) => resp.rai = Table[a].rai

\* C25 amended: findRai never returns the RAI of the template with fewer
\* literal segments, and returns the RAI of the one with more when no other
\* matching template of the method scores higher or scores as high and is
\* declared earlier; every per-method list is ordered by non-increasing score
C25_FewerLiteralsNeverWins ==
    Serving =>
        /\ ListsByStatedScore
        /\ (Handled /\ NoExactMatch) =>
              \A a, b \in 1..Len(Table) :
                  MoreLiterals(a, b) =>
                      /\ resp.rai # Table[b].rai
                      /\ Unrivalled(a) => resp.rai = Table[a].rai

\* the template with fewer literals is declared first and the scan answers
\* with the other one
C25_Witness ==
    /\ Serving /\ Handled /\ NoExactMatch
    /\ resp.via = "pattern"
    /\ \E a, b \in 1..Len(Table) :
          MoreLiterals(a, b) /\ b < a /\ Unrivalled(a) /\ resp.rai = Table[a].rai


\* the templates a and b have equally many segments, literals and parameters,
\* and where their segment kinds first differ a has the literal
EarlierLiteral(a, b) ==
    LET sa == Segments(a)
        sb == Segments(b)
    IN  /\ Len(sa) = Len(sb)
        /\ Literals(a) = Literals(b)
        /\ Params(a) = Params(b)
        /\ \E i \in 1..Len(sa) :
              /\ IsLiteral(sa[i]) /\ ~IsLiteral(sb[i])
              /\ \A j \in 1..(i - 1) : IsLiteral(sa[j]) <=> IsLiteral(sb[j])

\* C26: of two templates of one method with the same number of segments,
\* literals and parameters, the one whose literal sits at an earlier index
\* scores strictly higher and comes first in the method's pattern list,
\* whatever the declaration order
C26_EarlierLiteralScoresHigher ==
    Serving =>
        \A k \in 1..Len(routesByMethod) :
            \A i, j \in 1..Len(routesByMethod[k].val) :
                EarlierLiteral(routesByMethod[k].val[i].path, routesByMethod[k].val[j].path)
                    => /\ getRouteSpecificity(routesByMethod[k].val[i].path)
                            > getRouteSpecificity(routesByMethod[k].val[j].path)
                       /\ i < j


\* the resolver without a cache: the exact index, then the first template of
\* the method's specificity-ordered list that matches; "" when there is none
Reference(path, method) ==
    LET m == NormalizeMethod(method)
        list == IF MapHas(routesByMethod, m) THEN MapGet(routesByMethod, m) ELSE <<>>
        hits == {i \in 1..Len(list) : MatchesRequest(list[i].path, path)}
    IN  IF MapHas(exactRoutes, Key(m, Unslashed(path)))
        THEN MapGet(exactRoutes, Key(m, Unslashed(path)))
        ELSE IF hits = {} THEN ""
        ELSE list[CHOOSE i \in hits : \A j \in hits : i <= j].rai

\* C27: after any interleaving of findRai and clearCache calls, whatever the
\* cache holds, the call just answered and every call that could come next
\* has the outcome of the cache-less resolver: the same RAI, or NotFound
C27_CacheTransparent ==
    Serving =>
        /\ Handled =>
              /\ resp.rai = Reference(resp.path, resp.method)
              /\ (resp.outcome = "NotFound") <=> (Reference(resp.path, resp.method) = "")
        /\ \A req \in MatcherRequests :
              /\ Resolve(req[1], req[2]).found <=> (Reference(req[1], req[2]) # "")
              /\ Resolve(req[1], req[2]).rai = Reference(req[1], req[2])

\* the cache holds an answer for each of two methods and the request just
\* answered was served from it
C27_Witness ==
    /\ Serving /\ Handled
    /\ Len(cache) = 2
    /\ cache[1].val.rai # cache[2].val.rai
    /\ resp.via = "cache"
    /\ resp.rai = Reference(resp.path, resp.method)


\* two requests with the same method after trimming and upper-casing and the
\* same path after removing one trailing slash
SameNormalForm(r1, r2) ==
    /\ NormalizeMethod(r1[2]) = NormalizeMethod(r2[2])
    /\ Unslashed(r1[1]) = Unslashed(r2[1])

\* the key findRai uses for the exact index and for the cache
LookupKey(req) == Key(NormalizeMethod(req[2]), normalizeRoute(req[1]).primary)

\* C28: two requests with the same normalized method and the same path up to
\* one trailing slash resolve to the same RAI or both fail, use the same key
\* for the exact index and the cache, and the answer memoized for one is the
\* answer the other is served from the cache
C28_NormalizationInvariant ==
    Serving =>
        \A r1, r2 \in MatcherRequests :
            SameNormalForm(r1, r2) =>
                /\ Resolve(r1[1], r1[2]).found = Resolve(r2[1], r2[2]).found
                /\ Resolve(r1[1], r1[2]).rai = Resolve(r2[1], r2[2]).rai
                /\ LookupKey(r1) = LookupKey(r2)
                /\ MapHas(exactRoutes, LookupKey(r1))
                      => /\ Resolve(r1[1], r1[2]).via = "exact"
                         /\ Resolve(r2[1], r2[2]).via = "exact"
                /\ Resolve(r1[1], r1[2]).via = "pattern"
                      => FindRai(exactRoutes, routesByMethod,
                                 Resolve(r1[1], r1[2]).cache, r2[1], r2[2]).via = "cache"

\* a request with a trailing slash and an untrimmed method is served from the
\* cache entry stored under the normalized method and the path without slash
C28_Witness ==
    /\ Serving /\ Handled
    /\ resp.via = "cache"
    /\ resp.method = " GET"
    /\ resp.path = <<"/", "a", "/", "b", "/">>
    /\ Len(cache) = 1
    /\ cache[1].key = Key("GET", <<"/", "a", "/", "b">>)


\* the uuids of the rules in the resolved param set of the endpoint
RuleIds(E) == {E.params[i].uuid : i \in 1..Len(E.params)}

\* the parameter names the resolved param set of the endpoint has a rule for
RuleNames(E) == {E.params[i].path : i \in 1..Len(E.params)}

\* the parameter name of the rule whose callback ran last
LastCalledName ==
    LET uuid == resp.paramCalls[Len(resp.paramCalls)].uuid
    IN  ParamRule(uuid).path

\* C29: for a request dispatched to its resolved endpoint, every param
\* callback that runs belongs to a rule of the endpoint's resolved param set,
\* no rule's extraction hook or validator runs twice, and the request is not
\* rejected with INVALID_PARAM by a rule for a name the set has no rule for
C29_ParamRulesScoped ==
    (Serving /\ resp.outcome = "Dispatched" /\ resp.matchedLayer = resp.routeId) =>
        LET E == MapGet(_raisMap, resp.rai)
        IN  /\ \A c \in 1..Len(resp.paramCalls) : resp.paramCalls[c].uuid \in RuleIds(E)
            /\ \A c, d \in 1..Len(resp.paramCalls) :
                  c # d => resp.paramCalls[c] # resp.paramCalls[d]
            /\ resp.error.code = "INVALID_PARAM" => LastCalledName \in RuleNames(E)


\* the RAI the pattern scan alone returns: the first template of the method's
\* specificity-ordered list that matches; "" when there is none
ScanOnly(path, method) ==
    LET m == NormalizeMethod(method)
        list == IF MapHas(routesByMethod, m) THEN MapGet(routesByMethod, m) ELSE <<>>
        hits == {i \in 1..Len(list) : MatchesRequest(list[i].path, path)}
    IN  IF hits = {} THEN ""
        ELSE list[CHOOSE i \in hits : \A j \in hits : i <= j].rai

\* C30: the RAI a request gets from the exact index is the RAI the
\* specificity-ordered, declaration-order-stable pattern scan alone returns
C30_ExactIndexIsFastPath ==
    (Serving /\ Handled /\ resp.via = "exact") =>
        resp.rai = ScanOnly(resp.path, resp.method)

====
